---- MODULE Spec2Model ----
(***************************************************************************)
(* A model of the versioning engine of FLYBYME/vfs: VirtualFileSystem      *)
(* (working tree, object store, reference table, HEAD), VirtualFile,       *)
(* InMemoryObjectStore and GitIgnore.                                      *)
(*                                                                         *)
(* Strings that the engine uses as hashes, ref names and branch names are  *)
(* modelled as tagged tuples:                                              *)
(*   <<>>                     the empty string ""                          *)
(*   <<"lit", s>>             a plain string s (a branch name, a message)  *)
(*   <<"refs/heads/", n>>     the string `refs/heads/${n}`                 *)
(*   <<"blob", ...>>, <<"tree", ...>>, <<"commit", ...>>                   *)
(*                            the SHA-1 hex digest of that serialization   *)
(*   <<"undefined">>          the JS value undefined                       *)
(* SHA-1 is modelled as an injective function of the serialized object.    *)
(* File contents and relative path strings are tuples of one-character     *)
(* strings; a path is also handled as the tuple of its '/'-separated       *)
(* segments.                                                               *)
(***************************************************************************)
EXTENDS Integers, Sequences, FiniteSets, TLC

\* inflight: the objects whose objectStore.put has been called and has not
\* completed (always none with InMemoryObjectStore, whose put completes within
\* the call)
\* sandbox: the state of one DockerSandbox.captureLogs call (its timer, its
\* container.stop() request, the log stream, the captured chunks and the
\* returned promise)
\* sourceFileCache: the Compiler's cache of parsed source files
VARIABLES workingFiles, store, refs, HEAD, now, inflight, sandbox,
          sourceFileCache

vars == <<workingFiles, store, refs, HEAD, now, inflight, sandbox,
          sourceFileCache>>

----------------------------------------------------------------------------
(* Bounds of the model *)

\* commit objects with fewer than two parents in the store, under Spec and
\* SpecIgnore, under SpecTree and under SpecApi
MaxCommits == 3
MaxTreeCommits == 2
MaxApiCommits == 2
\* commit objects with two parents or more in the store
MaxMerges == 1
\* the wall clock (Date.now()) runs from 0 to MaxTime
MaxTime == 0
\* the version counter of a file runs from 0 to MaxVersion
MaxVersion == 1
\* the longest parent chain of a commit, in commits, under SpecSnap
MaxSnapDepth == 2

----------------------------------------------------------------------------
(* JS values *)

Undefined == <<"undefined">>
EmptyStr == <<>>

Falsy(x) == x = Undefined \/ x = EmptyStr

Lit(s) == <<"lit", s>>

\* `refs/heads/${name}`
FullRef(name) == <<"refs/heads/", name>>

\* String.prototype.startsWith('refs/')
StartsWithRefs(s) == Len(s) > 0 /\ s[1] = "refs/heads/"

MainRef == FullRef(Lit("main"))

Range(f) == {f[x] : x \in DOMAIN f}

RECURSIVE SeqConcat(_)
SeqConcat(ss) == IF ss = <<>> THEN <<>> ELSE Head(ss) \o SeqConcat(Tail(ss))

----------------------------------------------------------------------------
(* Paths: node's path.resolve / path.relative / path.join on POSIX *)

rootDir == <<"r">>

\* normalisation of a segment list of an absolute path: "." and "" vanish,
\* ".." removes the segment before it (never above "/")
RECURSIVE NormalizeOnto(_, _)
NormalizeOnto(acc, segs) ==
    IF segs = <<>> THEN acc
    ELSE LET h == Head(segs) IN
         IF h = "." \/ h = "" THEN NormalizeOnto(acc, Tail(segs))
         ELSE IF h = ".."
              THEN NormalizeOnto(IF acc = <<>> THEN acc ELSE SubSeq(acc, 1, Len(acc) - 1),
                                 Tail(segs))
              ELSE NormalizeOnto(Append(acc, h), Tail(segs))

\* path.join(base, name) for an absolute base
PathJoin(base, segs) == NormalizeOnto(base, segs)

\* VirtualFileSystem.resolve: path.resolve(rootDir, filePath), filePath relative
resolve(segs) == NormalizeOnto(rootDir, segs)

RECURSIVE CommonPrefixLen(_, _)
CommonPrefixLen(a, b) ==
    IF a = <<>> \/ b = <<>> \/ Head(a) # Head(b) THEN 0
    ELSE 1 + CommonPrefixLen(Tail(a), Tail(b))

\* path.relative(from, to).split('/') for absolute normalised paths;
\* path.relative gives "" for equal paths, and "".split('/') is [""]
PathRelative(from, to) ==
    LET k == CommonPrefixLen(from, to)
        ups == [i \in 1..(Len(from) - k) |-> ".."]
        rest == SubSeq(to, k + 1, Len(to))
    IN IF ups \o rest = <<>> THEN <<"">> ELSE ups \o rest

----------------------------------------------------------------------------
(* Characters of the names the model uses *)

Chars(name) ==
    CASE name = ".gitignore" -> <<".", "g", "i", "t", "i", "g", "n", "o", "r", "e">>
      [] name = ".." -> <<".", ".">>
      [] name = "" -> <<>>
      [] OTHER -> <<name>>

\* the relative path string: segments joined by "/"
RECURSIVE JoinSlash(_)
JoinSlash(segs) ==
    IF segs = <<>> THEN <<>>
    ELSE IF Len(segs) = 1 THEN Chars(segs[1])
    ELSE Chars(segs[1]) \o <<"/">> \o JoinSlash(Tail(segs))

----------------------------------------------------------------------------
(* GitIgnore: patterns are compiled to regular expressions.  The model     *)
(* covers pattern lines without glob characters and without white space:   *)
(* such a line compiles to [anchor] literal [tail].                        *)

\* String.prototype.split('\n')
RECURSIVE SplitLines(_, _)
SplitLines(cur, chars) ==
    IF chars = <<>> THEN <<cur>>
    ELSE IF Head(chars) = "\n" THEN <<cur>> \o SplitLines(<<>>, Tail(chars))
    ELSE SplitLines(Append(cur, Head(chars)), Tail(chars))

\* one pattern line -> the compiled pattern (GitIgnore.parse, loop body);
\* callers skip empty lines and comments
CompilePattern(line0) ==
    LET negative == line0[1] = "!"
        line == IF negative THEN Tail(line0) ELSE line0
    IN IF line # <<>> /\ line[Len(line)] = "/"
       THEN \* regexStr += '.*'   (no anchor is added on this branch)
            [negative |-> negative, start |-> "any", lit |-> line, tail |-> "dotstar"]
       ELSE IF ~(line # <<>> /\ line[1] = "/")
            THEN \* '(?:^|/)' + regexStr + '(?:$|/.*)'
                 [negative |-> negative, start |-> "seg", lit |-> line,
                  tail |-> "endOrSlash"]
            ELSE \* '^' + regexStr.substring(1) + '(?:$|/.*)'
                 [negative |-> negative, start |-> "bol", lit |-> Tail(line),
                  tail |-> "endOrSlash"]

RECURSIVE CompileLines(_)
CompileLines(lines) ==
    IF lines = <<>> THEN <<>>
    ELSE LET line == Head(lines) IN
         IF line = <<>> \/ line[1] = "#" THEN CompileLines(Tail(lines))
         ELSE <<CompilePattern(line)>> \o CompileLines(Tail(lines))

\* new GitIgnore(content): the pattern list
GitIgnoreParse(content) == CompileLines(SplitLines(<<>>, content))

\* RegExp.prototype.test for a compiled pattern
RegexTest(pat, path) ==
    \E i \in 0..Len(path) :
        LET e == i + Len(pat.lit) IN
        /\ e <= Len(path)
        /\ SubSeq(path, i + 1, e) = pat.lit
        /\ CASE pat.start = "any" -> TRUE
             [] pat.start = "bol" -> i = 0
             [] pat.start = "seg" -> i = 0 \/ path[i] = "/"
        /\ CASE pat.tail = "dotstar" -> TRUE
             [] pat.tail = "endOrSlash" -> e = Len(path) \/ path[e + 1] = "/"

\* GitIgnore.ignores: the last matching pattern wins
RECURSIVE IgnoresFrom(_, _, _)
IgnoresFrom(patterns, path, ignored) ==
    IF patterns = <<>> THEN ignored
    ELSE IgnoresFrom(Tail(patterns), path,
                     IF RegexTest(Head(patterns), path)
                     THEN ~Head(patterns).negative ELSE ignored)

ignores(patterns, relSegs) == IgnoresFrom(patterns, JoinSlash(relSegs), FALSE)

----------------------------------------------------------------------------
(* Working tree: a JS Map (insertion ordered) from absolute path to        *)
(* VirtualFile, modelled as a sequence of [path, content, version].        *)

VirtualFile(absPath, content) == [path |-> absPath, content |-> content, version |-> 0]

WFIndex(wf, absPath) ==
    IF \E i \in 1..Len(wf) : wf[i].path = absPath
    THEN CHOOSE i \in 1..Len(wf) : wf[i].path = absPath
    ELSE 0

WFHas(wf, absPath) == WFIndex(wf, absPath) # 0

WFGet(wf, absPath) == wf[WFIndex(wf, absPath)]

\* Map.prototype.set: an existing key keeps its position
WFSet(wf, file) ==
    IF WFHas(wf, file.path)
    THEN [wf EXCEPT ![WFIndex(wf, file.path)] = file]
    ELSE Append(wf, file)

\* Map.prototype.delete
WFDelete(wf, absPath) ==
    LET i == WFIndex(wf, absPath) IN
    IF i = 0 THEN wf ELSE SubSeq(wf, 1, i - 1) \o SubSeq(wf, i + 1, Len(wf))

\* VirtualFile.update without the test for identical content
updateAlwaysBumps(file, newContent) ==
    [file EXCEPT !.content = newContent, !.version = file.version + 1]

\* VirtualFile.update
update(file, newContent) ==
    IF file.content = newContent THEN file
    ELSE [file EXCEPT !.content = newContent, !.version = file.version + 1]

\* VirtualFileSystem.write, on the working tree
write(wf, segs, content) ==
    LET absPath == resolve(segs) IN
    IF WFHas(wf, absPath)
    THEN [wf EXCEPT ![WFIndex(wf, absPath)] = update(wf[WFIndex(wf, absPath)], content)]
    ELSE Append(wf, VirtualFile(absPath, content))

\* VirtualFileSystem.loadGitIgnore: the pattern list, or <<>> when the
\* working tree has no root .gitignore (no pattern ignores nothing)
loadGitIgnore(wf) ==
    LET gitIgnorePath == PathJoin(rootDir, <<".gitignore">>) IN
    IF WFHas(wf, gitIgnorePath) THEN GitIgnoreParse(WFGet(wf, gitIgnorePath).content)
    ELSE <<>>


----------------------------------------------------------------------------
(* Objects and hashing *)

\* VirtualFileSystem.hashObject: SHA-1 of "<type> <length>\0" + serialization,
\* modelled as the tagged tuple of what is serialized
hashObject(obj) ==
    CASE obj.type = "blob" -> <<"blob", obj.content>>
      [] obj.type = "tree" ->
            <<"tree", [i \in 1..Len(obj.entries) |->
                          <<obj.entries[i].mode, obj.entries[i].type,
                            obj.entries[i].hash, obj.entries[i].name>>]>>
      [] obj.type = "commit" ->
            <<"commit", obj.tree, obj.parents, obj.author, obj.timestamp, obj.message>>

\* VirtualFileSystem.createBlob
createBlob(content) ==
    LET blob == [type |-> "blob", hash |-> EmptyStr, content |-> content]
    IN [blob EXCEPT !.hash = hashObject(blob)]

\* InMemoryObjectStore.get
\* the value get gives for an absent hash
NoObject == [type |-> "undefined"]

Get(st, hash) == IF hash \in DOMAIN st THEN st[hash] ELSE NoObject

IsObj(o) == o.type # "undefined"

\* InMemoryObjectStore.put (VirtualFileSystem.storeObject)
Put(st, obj) ==
    [h \in DOMAIN st \cup {obj.hash} |-> IF h = obj.hash THEN obj ELSE st[h]]

\* InMemoryObjectStore.put(obj) as a call: the store afterwards and the error
\* thrown, "" when none (Map.prototype.set does not throw)
put(st, obj) == [thrown |-> "", store |-> Put(st, obj)]

RECURSIVE PutAll(_, _)
PutAll(st, objs) ==
    IF objs = <<>> THEN st ELSE PutAll(Put(st, Head(objs)), Tail(objs))

Commits(st) == {h \in DOMAIN st : st[h].type = "commit"}

MergeCommits(st) == {h \in Commits(st) : Len(st[h].parents) >= 2}

PlainCommits(st) == Commits(st) \ MergeCommits(st)

----------------------------------------------------------------------------
(* buildTreeFromPaths.  The nested JS object `root` is modelled as the     *)
(* insertion-ordered list of its nodes, each with the path of property     *)
(* names leading to it.  A node is a blob node ({type:'blob', hash}) or a  *)
(* plain object (a directory).  Names "type" and "hash" are not used as    *)
(* path segments in the model.                                             *)

NodeIndex(nodes, path) ==
    IF \E i \in 1..Len(nodes) : nodes[i].path = path
    THEN CHOOSE i \in 1..Len(nodes) : nodes[i].path = path
    ELSE 0

IsStrictPrefix(p, q) == Len(p) < Len(q) /\ SubSeq(q, 1, Len(p)) = p

RECURSIVE DropUnder(_, _)
DropUnder(nodes, path) ==
    IF nodes = <<>> THEN <<>>
    ELSE (IF IsStrictPrefix(path, Head(nodes).path) THEN <<>> ELSE <<Head(nodes)>>)
         \o DropUnder(Tail(nodes), path)

\* the inner loop over the parts of one relPath: parts[1..i-1] are done
RECURSIVE InsertPath(_, _, _, _)
InsertPath(nodes, parts, i, blobHash) ==
    LET path == SubSeq(parts, 1, i)
        at == NodeIndex(nodes, path)
    IN IF i = Len(parts)
       THEN \* current[part] = { type: 'blob', hash }: replaces the object there
            LET node == [path |-> path, isBlob |-> TRUE, hash |-> blobHash]
                kept == DropUnder(nodes, path)
                k == NodeIndex(kept, path)
            IN IF k = 0 THEN Append(kept, node) ELSE [kept EXCEPT ![k] = node]
       ELSE \* current[part] = current[part] || {}
            InsertPath(IF at = 0
                       THEN Append(nodes, [path |-> path, isBlob |-> FALSE, hash |-> EmptyStr])
                       ELSE nodes,
                       parts, i + 1, blobHash)

RECURSIVE BuildNodes(_, _)
BuildNodes(nodes, fileHashes) ==
    IF fileHashes = <<>> THEN nodes
    ELSE BuildNodes(InsertPath(nodes, Head(fileHashes).path, 1, Head(fileHashes).hash),
                    Tail(fileHashes))

\* String.prototype.localeCompare (ICU root collation) on the names of the
\* model: punctuation before letters, letters case-insensitively first.  The
\* names "e_nfc" and "e_nfd" stand for the letter e with acute accent written
\* as the one code point U+00E9 and as e followed by U+0301: two different
\* strings that are canonically equivalent, for which localeCompare gives 0.
LocaleRank(name) ==
    CASE name = "" -> 0
      [] name = ".." -> 1
      [] name = ".gitignore" -> 2
      [] name = "a" -> 3
      [] name = "B" -> 4
      [] name = "d" -> 5
      [] name = "e_nfc" -> 6
      [] name = "e_nfd" -> 6
      [] name = "x" -> 7

localeCompare(a, b) ==
    IF LocaleRank(a) < LocaleRank(b) THEN -1
    ELSE IF LocaleRank(a) > LocaleRank(b) THEN 1 ELSE 0

\* Array.prototype.sort((a, b) => a.name.localeCompare(b.name)), stable
RECURSIVE InsertEntry(_, _)
InsertEntry(sorted, e) ==
    IF sorted = <<>> THEN <<e>>
    ELSE IF localeCompare(e.name, Head(sorted).name) < 0 THEN <<e>> \o sorted
    ELSE <<Head(sorted)>> \o InsertEntry(Tail(sorted), e)

RECURSIVE SortEntries(_, _)
SortEntries(sorted, entries) ==
    IF entries = <<>> THEN sorted
    ELSE SortEntries(InsertEntry(sorted, Head(entries)), Tail(entries))

\* Object.keys(node) as the child nodes of `path`, in insertion order
RECURSIVE ChildNodes(_, _)
ChildNodes(nodes, path) ==
    IF nodes = <<>> THEN <<>>
    ELSE (IF Len(Head(nodes).path) = Len(path) + 1 /\ IsStrictPrefix(path, Head(nodes).path)
          THEN <<Head(nodes)>> ELSE <<>>)
         \o ChildNodes(Tail(nodes), path)

\* createTreeRecursive(node): the tree object of the node at `path`
RECURSIVE createTreeRecursive(_, _)
createTreeRecursive(nodes, path) ==
    LET kids == ChildNodes(nodes, path)
        entries == [i \in 1..Len(kids) |->
                      IF kids[i].isBlob
                      THEN [mode |-> "100644", type |-> "blob", hash |-> kids[i].hash,
                            name |-> kids[i].path[Len(kids[i].path)]]
                      ELSE [mode |-> "040000", type |-> "tree",
                            hash |-> createTreeRecursive(nodes, kids[i].path).hash,
                            name |-> kids[i].path[Len(kids[i].path)]]]
        tree == [type |-> "tree", hash |-> EmptyStr, entries |-> SortEntries(<<>>, entries)]
    IN [tree EXCEPT !.hash = hashObject(tree)]

\* the tree objects createTreeRecursive(node) stores: the subtrees first
RECURSIVE StoredTrees(_, _)
StoredTrees(nodes, path) ==
    LET kids == ChildNodes(nodes, path)
    IN SeqConcat([i \in 1..Len(kids) |->
                     IF kids[i].isBlob THEN <<>> ELSE StoredTrees(nodes, kids[i].path)])
       \o <<createTreeRecursive(nodes, path)>>

\* buildTreeFromPaths(fileHashes): the root tree hash and the store afterwards
buildTreeFromPaths(st, fileHashes) ==
    LET nodes == BuildNodes(<<>>, fileHashes)
    IN [hash |-> createTreeRecursive(nodes, <<>>).hash,
        store |-> PutAll(st, StoredTrees(nodes, <<>>))]


----------------------------------------------------------------------------
(* Reading trees back *)

\* a JS Map from path to blob hash, as an insertion-ordered list
MapIndex(m, path) ==
    IF \E i \in 1..Len(m) : m[i].path = path
    THEN CHOOSE i \in 1..Len(m) : m[i].path = path
    ELSE 0

MapHas(m, path) == MapIndex(m, path) # 0

\* Map.prototype.get
MapGet(m, path) == IF MapHas(m, path) THEN m[MapIndex(m, path)].hash ELSE Undefined

MapSet(m, path, hash) ==
    IF MapHas(m, path) THEN [m EXCEPT ![MapIndex(m, path)].hash = hash]
    ELSE Append(m, [path |-> path, hash |-> hash])

RECURSIVE MapSetAll(_, _)
MapSetAll(m, pairs) ==
    IF pairs = <<>> THEN m
    ELSE MapSetAll(MapSet(m, Head(pairs).path, Head(pairs).hash), Tail(pairs))

MapKeys(m) == [i \in 1..Len(m) |-> m[i].path]

\* VirtualFileSystem.getTreeFiles(treeHash, basePath): path -> blob hash;
\* the path `${basePath}/${entry.name}` is kept as its list of names
RECURSIVE getTreeFiles(_, _, _)
RECURSIVE TreeFilesFrom(_, _, _, _)
TreeFilesFrom(st, entries, basePath, result) ==
    IF entries = <<>> THEN result
    ELSE LET entry == Head(entries)
             fullPath == Append(basePath, entry.name)
         IN TreeFilesFrom(st, Tail(entries), basePath,
                CASE entry.type = "blob" -> MapSet(result, fullPath, entry.hash)
                  [] entry.type = "tree" ->
                        MapSetAll(result, getTreeFiles(st, entry.hash, fullPath))
                  [] OTHER -> result)

getTreeFiles(st, treeHash, basePath) ==
    IF Falsy(treeHash) THEN <<>>
    ELSE LET tree == Get(st, treeHash) IN
         IF ~IsObj(tree) \/ tree.type # "tree" THEN <<>>
         ELSE TreeFilesFrom(st, tree.entries, basePath, <<>>)

\* VirtualFileSystem.restoreTree(treeHash, currentBasePath) on working tree wf:
\* [ok |-> FALSE] when it throws `Missing tree`, with the files set so far
RECURSIVE restoreTree(_, _, _, _)
RECURSIVE RestoreEntries(_, _, _, _)
RestoreEntries(st, entries, basePath, acc) ==
    IF entries = <<>> \/ ~acc.ok THEN acc
    ELSE LET entry == Head(entries)
             fullPath == PathJoin(basePath, <<entry.name>>)
             blob == Get(st, entry.hash)
         IN RestoreEntries(st, Tail(entries), basePath,
                CASE entry.type = "blob" ->
                        IF IsObj(blob) /\ blob.type = "blob"
                        THEN [acc EXCEPT !.wf = WFSet(acc.wf, VirtualFile(fullPath, blob.content))]
                        ELSE acc
                  [] entry.type = "tree" -> restoreTree(st, entry.hash, fullPath, acc.wf)
                  [] OTHER -> acc)

restoreTree(st, treeHash, basePath, wf) ==
    LET tree == Get(st, treeHash) IN
    IF ~IsObj(tree) \/ tree.type # "tree" THEN [ok |-> FALSE, wf |-> wf]
    ELSE RestoreEntries(st, tree.entries, basePath, [ok |-> TRUE, wf |-> wf])

----------------------------------------------------------------------------
(* References *)

RefsHas(rf, name) == name \in DOMAIN rf

\* Map.prototype.set on refs
RefsSet(rf, name, hash) ==
    [n \in DOMAIN rf \cup {name} |-> IF n = name THEN hash ELSE rf[n]]

\* Map.prototype.delete on refs
RefsDelete(rf, name) == [n \in DOMAIN rf \ {name} |-> rf[n]]

\* VirtualFileSystem.resolveRef
resolveRef(st, rf, ref) ==
    IF IsObj(Get(st, ref)) THEN ref
    ELSE IF RefsHas(rf, ref) THEN rf[ref]
    ELSE IF RefsHas(rf, FullRef(ref)) THEN rf[FullRef(ref)]
    ELSE Undefined

\* updateRef with the detached case also recording the hash under refName
updateRefAlsoSets(rf, head, refName, commitHash) ==
    IF StartsWithRefs(refName)
    THEN [refs |-> RefsSet(rf, refName, commitHash), HEAD |-> head]
    ELSE [refs |-> RefsSet(rf, refName, commitHash), HEAD |-> commitHash]

\* VirtualFileSystem.updateRef(refName, commitHash): the new refs and HEAD
updateRef(rf, head, refName, commitHash) ==
    IF StartsWithRefs(refName)
    THEN [refs |-> RefsSet(rf, refName, commitHash), HEAD |-> head]
    ELSE [refs |-> rf, HEAD |-> commitHash]


----------------------------------------------------------------------------
(* The engine's operations as functions of the engine state *)

\* commit, lines 481-491: the files that pass the ignore filter, in working
\* tree order, as [path |-> relPath.split('/'), content]
RECURSIVE FilteredFiles(_, _)
FilteredFiles(wf, patterns) ==
    IF wf = <<>> THEN <<>>
    ELSE LET relPath == PathRelative(rootDir, Head(wf).path) IN
         (IF ignores(patterns, relPath) THEN <<>>
          ELSE <<[path |-> relPath, content |-> Head(wf).content]>>)
         \o FilteredFiles(Tail(wf), patterns)

\* an optional argument: left out, or given with value x
Absent == <<>>
Given(x) == <<x>>

\* VirtualFileSystem.commit, lines 495-518: the commit object made and stored
\* once buildTreeFromPaths has given the root tree hash and left the store
\* as built.store
commitBuilt(built, rf, head, message, author, parents, t) ==
    LET parentHash == resolveRef(built.store, rf, head)
        commitParents == IF parents # Absent THEN parents[1]
                         ELSE IF Falsy(parentHash) THEN <<>> ELSE <<parentHash>>
        c0 == [type |-> "commit", hash |-> EmptyStr, tree |-> built.hash,
               parents |-> commitParents, message |-> message, author |-> author,
               timestamp |-> t]
        c == [c0 EXCEPT !.hash = hashObject(c0)]
        upd == updateRef(rf, head, head, c.hash)
    IN [hash |-> c.hash, store |-> Put(built.store, c), refs |-> upd.refs,
        HEAD |-> upd.HEAD]

\* VirtualFileSystem.commit(message, author, parents) at wall-clock time t;
\* parents is Absent or Given(an array of hashes)
commit(wf, st, rf, head, message, author, parents, t) ==
    LET files == FilteredFiles(wf, loadGitIgnore(wf))
        blobs == [i \in 1..Len(files) |-> createBlob(files[i].content)]
        fileHashes == [i \in 1..Len(files) |->
                          [path |-> files[i].path,
                           hash |-> createBlob(files[i].content).hash]]
    IN commitBuilt(buildTreeFromPaths(PutAll(st, blobs), fileHashes),
                   rf, head, message, author, parents, t)

\* checkout that clears the working tree before it looks at its argument
checkoutClearsFirst(wf, st, rf, head, hashOrRef) ==
    LET r == resolveRef(st, rf, hashOrRef)
        commitHash == IF Falsy(r) THEN hashOrRef ELSE r
        obj == Get(st, commitHash)
    IN IF ~IsObj(obj) \/ obj.type # "commit"
       THEN [thrown |-> "not a valid commit", wf |-> <<>>, HEAD |-> head]
       ELSE LET restored == restoreTree(st, obj.tree, rootDir, <<>>) IN
            IF ~restored.ok
            THEN [thrown |-> "Missing tree", wf |-> restored.wf, HEAD |-> head]
            ELSE [thrown |-> "", wf |-> restored.wf,
                  HEAD |-> IF StartsWithRefs(hashOrRef) THEN hashOrRef
                           ELSE IF RefsHas(rf, FullRef(hashOrRef)) THEN FullRef(hashOrRef)
                           ELSE commitHash]

\* checkout that always leaves HEAD detached at the commit it restored
checkoutDetaches(wf, st, rf, head, hashOrRef) ==
    LET r == resolveRef(st, rf, hashOrRef)
        commitHash == IF Falsy(r) THEN hashOrRef ELSE r
        obj == Get(st, commitHash)
    IN IF ~IsObj(obj) \/ obj.type # "commit"
       THEN [thrown |-> "not a valid commit", wf |-> wf, HEAD |-> head]
       ELSE LET restored == restoreTree(st, obj.tree, rootDir, <<>>) IN
            IF ~restored.ok
            THEN [thrown |-> "Missing tree", wf |-> restored.wf, HEAD |-> head]
            ELSE [thrown |-> "", wf |-> restored.wf, HEAD |-> commitHash]

\* checkout that restores the tree over the files already in the working tree
checkoutNoClear(wf, st, rf, head, hashOrRef) ==
    LET r == resolveRef(st, rf, hashOrRef)
        commitHash == IF Falsy(r) THEN hashOrRef ELSE r
        obj == Get(st, commitHash)
    IN IF ~IsObj(obj) \/ obj.type # "commit"
       THEN [thrown |-> "not a valid commit", wf |-> wf, HEAD |-> head]
       ELSE LET restored == restoreTree(st, obj.tree, rootDir, wf) IN
            IF ~restored.ok
            THEN [thrown |-> "Missing tree", wf |-> restored.wf, HEAD |-> head]
            ELSE [thrown |-> "", wf |-> restored.wf,
                  HEAD |-> IF StartsWithRefs(hashOrRef) THEN hashOrRef
                           ELSE IF RefsHas(rf, FullRef(hashOrRef)) THEN FullRef(hashOrRef)
                           ELSE commitHash]

\* VirtualFileSystem.checkout(hashOrRef): thrown = "" when it returns
checkout(wf, st, rf, head, hashOrRef) ==
    LET r == resolveRef(st, rf, hashOrRef)
        commitHash == IF Falsy(r) THEN hashOrRef ELSE r
        obj == Get(st, commitHash)
    IN IF ~IsObj(obj) \/ obj.type # "commit"
       THEN [thrown |-> "not a valid commit", wf |-> wf, HEAD |-> head]
       ELSE LET restored == restoreTree(st, obj.tree, rootDir, <<>>) IN
            IF ~restored.ok
            THEN [thrown |-> "Missing tree", wf |-> restored.wf, HEAD |-> head]
            ELSE [thrown |-> "", wf |-> restored.wf,
                  HEAD |-> IF StartsWithRefs(hashOrRef) THEN hashOrRef
                           ELSE IF RefsHas(rf, FullRef(hashOrRef)) THEN FullRef(hashOrRef)
                           ELSE commitHash]

\* the parents a BFS pushes for hash h
ParentsOf(st, h) ==
    LET c == Get(st, h) IN
    IF IsObj(c) /\ c.type = "commit" THEN c.parents ELSE <<>>

\* VirtualFileSystem.getAncestors: the loop, from its queue and set
RECURSIVE AncestorsLoop(_, _, _)
AncestorsLoop(st, queue, set) ==
    IF queue = <<>> THEN set
    ELSE LET h == Head(queue) IN
         IF h \in set THEN AncestorsLoop(st, Tail(queue), set)
         ELSE AncestorsLoop(st, Tail(queue) \o ParentsOf(st, h), set \cup {h})

getAncestors(st, startHash) == AncestorsLoop(st, <<startHash>>, {})

\* VirtualFileSystem.findMergeBase: the loop; Undefined stands for null
RECURSIVE MergeBaseLoop(_, _, _, _)
MergeBaseLoop(st, ancestors1, queue, visited) ==
    IF queue = <<>> THEN Undefined
    ELSE LET current == Head(queue) IN
         IF current \in ancestors1 THEN current
         ELSE IF current \in visited
              THEN MergeBaseLoop(st, ancestors1, Tail(queue), visited)
              ELSE MergeBaseLoop(st, ancestors1, Tail(queue) \o ParentsOf(st, current),
                                 visited \cup {current})

findMergeBase(st, hash1, hash2) ==
    MergeBaseLoop(st, getAncestors(st, hash1), <<hash2>>, {})

\* new Set([...baseFiles.keys(), ...ourFiles.keys(), ...theirFiles.keys()])
RECURSIVE Dedupe(_, _)
Dedupe(seen, s) ==
    IF s = <<>> THEN seen
    ELSE Dedupe(IF \E i \in 1..Len(seen) : seen[i] = Head(s) THEN seen
                ELSE Append(seen, Head(s)), Tail(s))

\* threeWayMerge with a three-way divergence resolved in favour of ours
MergeCaseOursWins(baseB, ourB, theirB) ==
    IF ourB = theirB THEN "continue"
    ELSE IF baseB = ourB THEN (IF ~Falsy(theirB) THEN "take theirs" ELSE "delete")
    ELSE "keep ours"

\* VirtualFileSystem.threeWayMerge: the branch the loop body takes on the
\* blob hashes of one file
MergeCase(baseB, ourB, theirB) ==
    IF ourB = theirB THEN "continue"
    ELSE IF baseB = ourB THEN (IF ~Falsy(theirB) THEN "take theirs" ELSE "delete")
    ELSE IF baseB = theirB THEN "keep ours"
    ELSE "conflict"

\* VirtualFileSystem.threeWayMerge: the loop over allFiles
RECURSIVE MergeFiles(_, _, _, _, _, _)
MergeFiles(st, wf, files, baseFiles, ourFiles, theirFiles) ==
    IF files = <<>> THEN [conflict |-> Undefined, wf |-> wf]
    ELSE LET file == Head(files)
             theirB == MapGet(theirFiles, file)
             case == MergeCase(MapGet(baseFiles, file), MapGet(ourFiles, file), theirB)
             blob == Get(st, theirB)
             rest == Tail(files)
         IN IF case = "conflict" THEN [conflict |-> file, wf |-> wf]
            ELSE MergeFiles(st,
                     IF case = "take theirs"
                     THEN (IF IsObj(blob) /\ blob.type = "blob"
                           THEN WFSet(wf, VirtualFile(resolve(file), blob.content))
                           ELSE wf)
                     ELSE IF case = "delete" THEN WFDelete(wf, resolve(file))
                     ELSE wf,
                     rest, baseFiles, ourFiles, theirFiles)

\* (obj as GitCommit).tree: undefined on an object that is no commit
TreeField(obj) == IF obj.type = "commit" THEN obj.tree ELSE Undefined

threeWayMerge(st, wf, baseHash, ourHash, theirHash) ==
    LET baseFiles == getTreeFiles(st, TreeField(Get(st, baseHash)), <<>>)
        ourFiles == getTreeFiles(st, TreeField(Get(st, ourHash)), <<>>)
        theirFiles == getTreeFiles(st, TreeField(Get(st, theirHash)), <<>>)
        allFiles == Dedupe(<<>>, MapKeys(baseFiles) \o MapKeys(ourFiles)
                                    \o MapKeys(theirFiles))
    IN MergeFiles(st, wf, allFiles, baseFiles, ourFiles, theirFiles)

\* the message `Merge branch '${branchName}'`
MergeMessage(branchName) == <<"Merge branch", branchName>>

\* merge with the two parents of the merge commit in the other order
MergeParentsSwapped(ourHash, theirHash) == <<theirHash, ourHash>>

\* VirtualFileSystem.merge: the parents it passes to commit
MergeParents(ourHash, theirHash) == <<ourHash, theirHash>>

\* merge without the test for a base that is theirs
MergeKindNoAncestorTest(ourHash, theirHash, baseHash) ==
    IF ourHash = theirHash THEN "Already up to date."
    ELSE IF Falsy(baseHash) THEN "unrelated histories"
    ELSE IF baseHash = ourHash THEN "Fast-forward"
    ELSE "3-way merge"

\* VirtualFileSystem.merge: the way it takes once ours and theirs resolve
MergeKind(ourHash, theirHash, baseHash) ==
    IF ourHash = theirHash THEN "Already up to date."
    ELSE IF Falsy(baseHash) THEN "unrelated histories"
    ELSE IF baseHash = ourHash THEN "Fast-forward"
    ELSE IF baseHash = theirHash THEN "Already up to date."
    ELSE "3-way merge"

\* VirtualFileSystem.merge, lines 367-371: what follows threeWayMerge, whose
\* outcome is m
mergeThreeWay(m, st, rf, head, branchName, ourHash, theirHash, t) ==
    IF m.conflict # Undefined
    THEN [thrown |-> "Merge conflict", value |-> m.conflict,
          wf |-> m.wf, store |-> st, refs |-> rf, HEAD |-> head]
    ELSE LET c == commit(m.wf, st, rf, head, MergeMessage(branchName),
                         Lit("User"), Given(MergeParents(ourHash, theirHash)), t)
         IN [thrown |-> "", value |-> Lit("Merge successful"), wf |-> m.wf,
             store |-> c.store, refs |-> c.refs, HEAD |-> c.HEAD]

\* VirtualFileSystem.merge(branchName) at wall-clock time t: the whole state
\* afterwards, with the value returned or the error thrown
merge(wf, st, rf, head, branchName, t) ==
    LET same == [wf |-> wf, store |-> st, refs |-> rf, HEAD |-> head]
        theirHash == resolveRef(st, rf, branchName)
        ourHash == resolveRef(st, rf, head)
        baseHash == findMergeBase(st, ourHash, theirHash)
        kind == MergeKind(ourHash, theirHash, baseHash)
    IN IF Falsy(theirHash) THEN [thrown |-> "not found", value |-> Undefined] @@ same
       ELSE IF Falsy(ourHash)
            THEN [thrown |-> "Nothing to merge into", value |-> Undefined] @@ same
       ELSE IF kind = "Already up to date."
            THEN [thrown |-> "", value |-> Lit("Already up to date.")] @@ same
       ELSE IF kind = "unrelated histories"
            THEN [thrown |-> "unrelated histories", value |-> Undefined] @@ same
       ELSE IF kind = "Fast-forward"
            THEN LET co == checkout(wf, st, rf, head, theirHash) IN
                 [thrown |-> co.thrown,
                  value |-> IF co.thrown = "" THEN Lit("Fast-forward") ELSE Undefined,
                  wf |-> co.wf, store |-> st, refs |-> rf, HEAD |-> co.HEAD]
       ELSE IF \E h \in {baseHash, ourHash, theirHash} : ~IsObj(Get(st, h))
            THEN \* reading .tree of undefined
                 [thrown |-> "TypeError", value |-> Undefined] @@ same
       ELSE mergeThreeWay(threeWayMerge(st, wf, baseHash, ourHash, theirHash),
                          st, rf, head, branchName, ourHash, theirHash, t)

\* VirtualFileSystem.status, lines 273-281: the path -> blob hash map of the
\* tree of the commit HEAD resolves to
StatusHeadFiles(st, rf, head) ==
    LET headRef == resolveRef(st, rf, head)
        commitObj == Get(st, headRef)
    IN IF ~Falsy(headRef) /\ IsObj(commitObj) /\ commitObj.type = "commit"
       THEN getTreeFiles(st, commitObj.tree, <<>>)
       ELSE <<>>

\* VirtualFileSystem.status, lines 284-297: relPath -> blob hash of the
\* working files that pass the ignore filter
StatusWorkingFiles(wf) ==
    LET files == FilteredFiles(wf, loadGitIgnore(wf)) IN
    MapSetAll(<<>>, [i \in 1..Len(files) |->
                       [path |-> files[i].path,
                        hash |-> createBlob(files[i].content).hash]])

\* VirtualFileSystem.status, lines 305-311: the loop over headFiles
RECURSIVE StatusCompare(_, _, _)
StatusCompare(headFiles, working, acc) ==
    IF headFiles = <<>> THEN acc
    ELSE LET p == Head(headFiles).path
             h == Head(headFiles).hash
         IN StatusCompare(Tail(headFiles), working,
                IF ~MapHas(working, p)
                THEN [acc EXCEPT !.deleted = Append(@, p)]
                ELSE IF MapGet(working, p) # h
                     THEN [acc EXCEPT !.modified = Append(@, p)]
                     ELSE acc)

\* VirtualFileSystem.status, lines 314-318: the loop over workingFiles.keys()
RECURSIVE StatusNew(_, _)
StatusNew(keys, headFiles) ==
    IF keys = <<>> THEN <<>>
    ELSE (IF ~MapHas(headFiles, Head(keys)) THEN <<Head(keys)>> ELSE <<>>)
         \o StatusNew(Tail(keys), headFiles)

\* VirtualFileSystem.status(): { modified, new, deleted }
status(wf, st, rf, head) ==
    LET headFiles == StatusHeadFiles(st, rf, head)
        working == StatusWorkingFiles(wf)
        cmp == StatusCompare(headFiles, working, [modified |-> <<>>, deleted |-> <<>>])
    IN [modified |-> cmp.modified,
        new |-> StatusNew(MapKeys(working), headFiles),
        deleted |-> cmp.deleted]

\* VirtualFileSystem.log: the commits from hash currentHash on
RECURSIVE LogFrom(_, _)
LogFrom(st, currentHash) ==
    IF Falsy(currentHash) THEN <<>>
    ELSE LET c == Get(st, currentHash) IN
         IF ~IsObj(c) \/ c.type # "commit" THEN <<>>
         ELSE <<c>> \o LogFrom(st, IF c.parents = <<>> \/ Falsy(c.parents[1])
                                   THEN EmptyStr ELSE c.parents[1])

\* log that returns the commit HEAD resolves to and none of its history
logHeadOnly(st, rf, head) ==
    LET c == Get(st, resolveRef(st, rf, head)) IN
    IF IsObj(c) /\ c.type = "commit" THEN <<c>> ELSE <<>>

log(st, rf, head) == LogFrom(st, resolveRef(st, rf, head))


----------------------------------------------------------------------------
(* Snapshots.  The snapshot file is modelled by the value JSON.parse gives  *)
(* for its text: JSON.stringify writes a Map as the array of its entries, a *)
(* working file as { path, content }, and an undefined array element as     *)
(* null.  A part of the document is an array, or is absent, or is a JSON    *)
(* value of another kind.                                                   *)

Null == <<"null">>

\* JSON.parse(JSON.stringify(x)) of an element x of an array
JsonElement(x) == IF x = Undefined THEN Null ELSE x

JArray(items) == [json |-> "array", items |-> items]
JNumber == [json |-> "number", items |-> <<>>]
JAbsent == [json |-> "undefined", items |-> <<>>]

\* Array.from(map.entries()): the model keeps no insertion order for the
\* object store and the reference table, the entries come in a fixed order
RECURSIVE Entries(_)
Entries(f) ==
    IF DOMAIN f = {} THEN <<>>
    ELSE LET k == CHOOSE x \in DOMAIN f : TRUE IN
         <<<<k, f[k]>>>> \o Entries([x \in DOMAIN f \ {k} |-> f[x]])

\* VirtualFileSystem.getDatabaseDump
getDatabaseDump(st, rf, head) ==
    [objects |-> Entries(st), refs |-> Entries(rf), HEAD |-> head]

\* VirtualFileSystem.saveToDisk: the document in the file it writes
saveToDisk(wf, st, rf, head) ==
    [file |-> "json",
     objects |-> JArray([i \in 1..Len(Entries(st)) |->
                            <<JsonElement(Entries(st)[i][1]), Entries(st)[i][2]>>]),
     refs |-> JArray([i \in 1..Len(Entries(rf)) |->
                         <<JsonElement(Entries(rf)[i][1]), JsonElement(Entries(rf)[i][2])>>]),
     head |-> head,
     workingFiles |-> JArray([i \in 1..Len(wf) |->
                                 [path |-> wf[i].path, content |-> wf[i].content]])]

\* no file at snapshotPath, and a file whose text JSON.parse rejects
NoFile == [file |-> "missing"]
Unparsable == [file |-> "unparsable"]

\* InMemoryObjectStore.load: store.set(hash, object) for each pair, in order
RECURSIVE StoreSetAll(_, _)
StoreSetAll(st, pairs) ==
    IF pairs = <<>> THEN st
    ELSE StoreSetAll([h \in DOMAIN st \cup {Head(pairs)[1]} |->
                         IF h = Head(pairs)[1] THEN Head(pairs)[2] ELSE st[h]],
                     Tail(pairs))

\* InMemoryObjectStore.load: clears the store first
LoadObjects(pairs) == StoreSetAll([h \in {} |-> NoObject], pairs)

\* InMemoryObjectStore.load(objects) as a call: the store afterwards and the
\* error thrown, "" when none (clear and set do not throw)
load(st, pairs) == [thrown |-> "", store |-> LoadObjects(pairs)]

\* new Map(snapshot.refs) for an array of entries
RECURSIVE MapOfEntries(_, _)
MapOfEntries(rf, pairs) ==
    IF pairs = <<>> THEN rf
    ELSE MapOfEntries(RefsSet(rf, Head(pairs)[1], Head(pairs)[2]), Tail(pairs))

\* loadFromDisk that leaves the working tree empty
LoadWorkingFilesNone(files) == <<>>

\* VirtualFileSystem.loadFromDisk, lines 774-777, for an array of files
RECURSIVE LoadWorkingFiles(_)
LoadWorkingFiles(files) ==
    IF files = <<>> THEN <<>>
    ELSE WFSet(LoadWorkingFiles(SubSeq(files, 1, Len(files) - 1)),
               VirtualFile(files[Len(files)].path, files[Len(files)].content))

\* VirtualFileSystem.loadFromDisk(snapshotPath) with document doc at that
\* path: the engine state afterwards and the error thrown, "" when none
loadFromDisk(wf, st, rf, head, doc) ==
    IF doc.file = "missing"
    THEN [thrown |-> "Snapshot file not found", wf |-> wf, store |-> st,
          refs |-> rf, HEAD |-> head]
    ELSE IF doc.file = "unparsable"
    THEN [thrown |-> "SyntaxError", wf |-> wf, store |-> st, refs |-> rf, HEAD |-> head]
    ELSE IF doc.objects.json # "array"
    THEN \* snapshot.objects.map is not a function
         [thrown |-> "TypeError", wf |-> wf, store |-> st, refs |-> rf, HEAD |-> head]
    ELSE IF doc.refs.json = "number"
    THEN \* new Map(5): not iterable; the object store is loaded already
         [thrown |-> "TypeError", wf |-> wf, store |-> LoadObjects(doc.objects.items),
          refs |-> rf, HEAD |-> head]
    ELSE IF doc.workingFiles.json # "array"
    THEN \* for (const file of undefined): after workingFiles.clear()
         [thrown |-> "TypeError", wf |-> <<>>, store |-> LoadObjects(doc.objects.items),
          refs |-> MapOfEntries(<<>>, doc.refs.items), HEAD |-> doc.head]
    ELSE [thrown |-> "", wf |-> LoadWorkingFiles(doc.workingFiles.items),
          store |-> LoadObjects(doc.objects.items),
          refs |-> MapOfEntries(<<>>, doc.refs.items), HEAD |-> doc.head]

----------------------------------------------------------------------------
(* Inputs of the model *)

\* file contents
Contents == {<<"a">>, <<"x">>}

\* path arguments of write and delete
Paths == {<<"a">>}

\* branch names
Names == {Lit("main"), Lit("feat")}

\* the message of every commit the client makes
Message == Lit("m")

Times == 0..MaxTime

----------------------------------------------------------------------------
(* readdir *)

\* the UTF-16 code unit of a character of the model's names; "e_nfc" is the
\* one code unit U+00E9 and "e_nfd" begins with the code unit of "e"
CodeUnit(ch) ==
    CASE ch = "." -> 46
      [] ch = "/" -> 47
      [] ch = "B" -> 66
      [] ch = "a" -> 97
      [] ch = "d" -> 100
      [] ch = "e" -> 101
      [] ch = "e_nfd" -> 101
      [] ch = "g" -> 103
      [] ch = "i" -> 105
      [] ch = "n" -> 110
      [] ch = "o" -> 111
      [] ch = "r" -> 114
      [] ch = "t" -> 116
      [] ch = "x" -> 120
      [] ch = "e_nfc" -> 233

\* a < b for strings, in code unit order: the order of Array.prototype.sort()
\* without a compare function
RECURSIVE StringLess(_, _)
StringLess(a, b) ==
    IF b = <<>> THEN FALSE
    ELSE IF a = <<>> THEN TRUE
    ELSE IF CodeUnit(Head(a)) # CodeUnit(Head(b))
         THEN CodeUnit(Head(a)) < CodeUnit(Head(b))
         ELSE StringLess(Tail(a), Tail(b))

\* Array.from(entries).sort()
RECURSIVE SortStrings(_)
SortStrings(set) ==
    IF set = {} THEN <<>>
    ELSE LET least == CHOOSE s \in set : \A u \in set \ {s} : StringLess(s, u)
         IN <<least>> \o SortStrings(set \ {least})

\* VirtualFileSystem.readdir(dirPath, { recursive, ignore }): the entry of
\* one working file, none when the file is skipped.  A file that is not below
\* absDir is skipped by the startsWith test or, with a path relative to
\* absDir that begins with "..", by the test on relPath
ReaddirEntry(patterns, absDir, filePath, recursive, ignore) ==
    LET relPath == PathRelative(absDir, filePath) IN
    IF filePath = absDir \/ relPath[1] = ".." THEN {}
    ELSE IF ignore /\ ignores(patterns, relPath) THEN {}
    ELSE IF recursive THEN {JoinSlash(relPath)}
    ELSE {Chars(relPath[1])}

readdir(wf, dirPath, recursive, ignore) ==
    LET absDir == resolve(dirPath)
        gitIgnore == loadGitIgnore(wf)
    IN SortStrings(UNION {ReaddirEntry(gitIgnore, absDir, wf[i].path, recursive, ignore) :
                              i \in 1..Len(wf)})

----------------------------------------------------------------------------
(* DockerSandbox.captureLogs *)

\* the chunks the log stream delivers on each channel
MaxChunks == 2

\* const MAX_LOG_SIZE = 5000
MAX_LOG_SIZE == 5000

\* no captureLogs call has been made
NoCapture ==
    [timer |-> "none", stop |-> "none", stream |-> "none",
     stdout |-> 0, stderr |-> 0, promise |-> "none", logs |-> <<>>]

\* the state when the executor of `new Promise` returns: the timer is set and
\* the handlers are attached
CaptureStarted ==
    [timer |-> "armed", stop |-> "none", stream |-> "open",
     stdout |-> 0, stderr |-> 0, promise |-> "pending", logs |-> <<>>]

\* resolve(value): settles the promise unless it is settled already
promiseResolve(sb, value) ==
    IF sb.promise = "pending"
    THEN [sb EXCEPT !.promise = "resolved", !.logs = value]
    ELSE sb

\* reject(reason)
promiseReject(sb, reason) ==
    IF sb.promise = "pending" THEN [sb EXCEPT !.promise = reason] ELSE sb

\* clearTimeout(timer): cancels the timer when it has not fired yet
clearTimeout(sb) ==
    IF sb.timer = "armed" THEN [sb EXCEPT !.timer = "cleared"] ELSE sb

----------------------------------------------------------------------------
(* State and actions *)

Init ==
    /\ workingFiles = <<>>
    /\ store = [h \in {} |-> NoObject]
    /\ refs = [n \in {MainRef} |-> EmptyStr]
    /\ HEAD = MainRef
    /\ now = 0
    /\ inflight = {}
    /\ sandbox = NoCapture
    /\ sourceFileCache = <<>>

\* vfs.write(filePath, content)
Write(p, c) ==
    /\ \A i \in 1..Len(write(workingFiles, p, c)) :
           write(workingFiles, p, c)[i].version <= MaxVersion
    /\ workingFiles' = write(workingFiles, p, c)
    /\ UNCHANGED <<store, refs, HEAD, now, inflight, sandbox,
                 sourceFileCache>>

\* vfs.delete(filePath)
Delete(p) ==
    /\ workingFiles' = WFDelete(workingFiles, resolve(p))
    /\ UNCHANGED <<store, refs, HEAD, now, inflight, sandbox,
                 sourceFileCache>>

\* vfs.commit(message) and vfs.commit(message, author, parents), at a
\* wall-clock time t that is not before the last one read
Commit(message, parents, t, max) ==
    \E c \in {commit(workingFiles, store, refs, HEAD, message, Lit("User"), parents, t)} :
    /\ Cardinality(PlainCommits(c.store)) <= max
    /\ t >= now
    /\ now' = t
    /\ store' = c.store
    /\ refs' = c.refs
    /\ HEAD' = c.HEAD
    /\ UNCHANGED <<workingFiles, inflight, sandbox, sourceFileCache>>

\* vfs.checkout(hashOrRef); when it throws, HEAD is as before
Checkout(arg) ==
    \E co \in {checkout(workingFiles, store, refs, HEAD, arg)} :
    /\ workingFiles' = co.wf
    /\ HEAD' = co.HEAD
    /\ UNCHANGED <<store, refs, now, inflight, sandbox,
                 sourceFileCache>>

\* the mutant of createBranch: no test that HEAD resolves to a commit
createBranchUnchecked(st, rf, head, name) ==
    LET headHash == resolveRef(st, rf, head) IN
    IF RefsHas(rf, FullRef(name)) THEN [thrown |-> "already exists", refs |-> rf]
    ELSE [thrown |-> "", refs |-> RefsSet(rf, FullRef(name), headHash)]

\* VirtualFileSystem.createBranch(name): the refs afterwards, or the error
createBranch(st, rf, head, name) ==
    LET headHash == resolveRef(st, rf, head) IN
    IF Falsy(headHash) THEN [thrown |-> "HEAD is detached or invalid", refs |-> rf]
    ELSE IF RefsHas(rf, FullRef(name)) THEN [thrown |-> "already exists", refs |-> rf]
    ELSE [thrown |-> "", refs |-> RefsSet(rf, FullRef(name), headHash)]

\* VirtualFileSystem.deleteBranch(name): the refs afterwards, or the error
deleteBranch(rf, head, name) ==
    IF ~RefsHas(rf, FullRef(name)) THEN [thrown |-> "does not exist", refs |-> rf]
    ELSE IF head = FullRef(name) THEN [thrown |-> "checked out", refs |-> rf]
    ELSE [thrown |-> "", refs |-> RefsDelete(rf, FullRef(name))]

\* vfs.createBranch(name)
CreateBranch(name) ==
    /\ refs' = createBranch(store, refs, HEAD, name).refs
    /\ UNCHANGED <<workingFiles, store, HEAD, now, inflight, sandbox,
                 sourceFileCache>>

\* vfs.deleteBranch(name)
DeleteBranch(name) ==
    /\ refs' = deleteBranch(refs, HEAD, name).refs
    /\ UNCHANGED <<workingFiles, store, HEAD, now, inflight, sandbox,
                 sourceFileCache>>

\* vfs.merge(branchName), its merge commit made at wall-clock time t
Merge(branchName, t, max) ==
    \E m \in {merge(workingFiles, store, refs, HEAD, branchName, t)} :
    /\ Cardinality(MergeCommits(m.store)) <= max
    /\ t >= now
    /\ now' = IF m.value = Lit("Merge successful") THEN t ELSE now
    /\ workingFiles' = m.wf
    /\ store' = m.store
    /\ refs' = m.refs
    /\ HEAD' = m.HEAD
    /\ UNCHANGED <<inflight, sandbox, sourceFileCache>>

Next ==
    \/ \E p \in Paths, c \in Contents : Write(p, c)
    \/ \E p \in Paths : Delete(p)
    \/ \E t \in Times : Commit(Message, Absent, t, MaxCommits)
    \/ \E a \in Names \cup Commits(store) : Checkout(a)
    \/ \E n \in Names : CreateBranch(n)
    \/ \E n \in Names : DeleteBranch(n)
    \/ \E n \in Names, t \in Times : Merge(n, t, MaxMerges)

Spec == Init /\ [][Next]_vars

----------------------------------------------------------------------------
(* The same engine driven with nested paths and an ignore file *)

\* in a root .gitignore, the content "a" ignores every path with a segment a
TreeContents == {<<"a">>}

TreePaths == {<<".gitignore">>, <<"d">>, <<"d", "a">>}

NextTree ==
    \/ \E p \in TreePaths, c \in TreeContents : Write(p, c)
    \/ \E p \in TreePaths : Delete(p)
    \/ \E t \in Times : Commit(Message, Absent, t, MaxTreeCommits)
    \/ \E a \in Names \cup Commits(store) : Checkout(a)
    \/ \E n \in Names : CreateBranch(n)
    \/ \E n \in Names : DeleteBranch(n)
    \/ \E n \in Names, t \in Times : Merge(n, t, MaxMerges)

SpecTree == Init /\ [][NextTree]_vars

----------------------------------------------------------------------------
(* The same engine driven with one file and an ignore file that names it *)

IgnorePaths == {<<".gitignore">>, <<"a">>}

NextIgnore ==
    \/ \E p \in IgnorePaths, c \in TreeContents : Write(p, c)
    \/ \E p \in IgnorePaths : Delete(p)
    \/ \E t \in Times : Commit(Message, Absent, t, MaxCommits)
    \/ \E a \in Names \cup Commits(store) : Checkout(a)
    \/ \E n \in Names : CreateBranch(n)
    \/ \E n \in Names : DeleteBranch(n)
    \/ \E n \in Names, t \in Times : Merge(n, t, MaxMerges)

SpecIgnore == Init /\ [][NextIgnore]_vars

----------------------------------------------------------------------------
(* The same engine driven through more of its public signatures: branch    *)
(* names that themselves start with refs/heads/, checkout of full ref      *)
(* names, and commit with caller-supplied parents.                         *)

ApiNames == Names \cup {FullRef(Lit("feat"))}

\* a 40-hex string that is the hash of no stored object
UnknownHash == Lit("0000000000000000000000000000000000000000")

\* the parents argument of commit: absent, [] or one hash
ParentChoices(st) ==
    {Absent, Given(<<>>)} \cup {Given(<<h>>) : h \in Commits(st) \cup {UnknownHash}}

NextApi ==
    \/ \E p \in Paths, c \in TreeContents : Write(p, c)
    \/ \E p \in Paths : Delete(p)
    \/ \E ps \in ParentChoices(store), t \in Times :
           Commit(Message, ps, t, MaxApiCommits)
    \/ \E a \in ApiNames \cup {FullRef(n) : n \in Names} \cup Commits(store) :
           Checkout(a)
    \/ \E n \in ApiNames : CreateBranch(n)
    \/ \E n \in ApiNames : DeleteBranch(n)
    \/ \E n \in ApiNames, t \in Times : Merge(n, t, MaxMerges)

SpecApi == Init /\ [][NextApi]_vars

----------------------------------------------------------------------------
(* The same engine driven with several files in one directory: names that  *)
(* differ in case, and two names that are canonically equivalent.          *)

NamePaths == {<<"a">>, <<"B">>, <<"e_nfc">>, <<"e_nfd">>}

NextNames ==
    \/ \E p \in NamePaths, c \in TreeContents : Write(p, c)
    \/ \E p \in NamePaths : Delete(p)
    \/ \E t \in Times : Commit(Message, Absent, t, MaxTreeCommits)
    \/ \E a \in Names \cup Commits(store) : Checkout(a)

SpecNames == Init /\ [][NextNames]_vars

----------------------------------------------------------------------------
(* The same engine driven with a path argument that contains "..".         *)

EscapePaths == {<<"a">>, <<"..", "a">>}

NextEscape ==
    \/ \E p \in EscapePaths, c \in TreeContents : Write(p, c)
    \/ \E p \in EscapePaths : Delete(p)
    \/ \E t \in Times : Commit(Message, Absent, t, MaxTreeCommits)
    \/ \E a \in Names \cup Commits(store) : Checkout(a)

SpecEscape == Init /\ [][NextEscape]_vars

----------------------------------------------------------------------------
(* The engine with snapshots: loadFromDisk of the files a snapshot path can *)
(* hold.                                                                    *)

\* the snapshot a newly constructed engine saves
FreshSnapshot ==
    saveToDisk(<<>>, [h \in {} |-> NoObject], [n \in {MainRef} |-> EmptyStr], MainRef)

\* the snapshot saved by an engine after write("a", "a"); commit("m");
\* delete("a"), with the pair of the blob taken out of its objects
SnapshotWithoutBlob ==
    LET c == commit(<<VirtualFile(resolve(<<"a">>), <<"a">>)>>, [h \in {} |-> NoObject],
                    [n \in {MainRef} |-> EmptyStr], MainRef, Message, Lit("User"),
                    Absent, 0)
    IN saveToDisk(<<>>, [h \in DOMAIN c.store \ {createBlob(<<"a">>).hash} |-> c.store[h]],
                  c.refs, c.HEAD)

\* the files at the snapshot path: the snapshot the engine would save now,
\* the snapshot of a new engine, that snapshot with one part malformed, that
\* snapshot with a blob under a key that is not its hash, a snapshot that
\* lacks a blob its tree names, an unparsable file and no file
SnapshotFiles(wf, st, rf, head) ==
    {saveToDisk(wf, st, rf, head),
     FreshSnapshot,
     SnapshotWithoutBlob,
     [FreshSnapshot EXCEPT !.objects = JNumber],
     [FreshSnapshot EXCEPT !.refs = JNumber],
     [FreshSnapshot EXCEPT !.workingFiles = JAbsent],
     [FreshSnapshot EXCEPT !.objects = JArray(<<<<UnknownHash, createBlob(<<"a">>)>>>>)],
     Unparsable,
     NoFile}

\* the number of commits on the longest parent chain written into hash h
RECURSIVE HashDepth(_)
HashDepth(h) ==
    IF h = <<>> \/ h[1] # "commit" THEN 0
    ELSE LET ds == {HashDepth(h[3][i]) : i \in 1..Len(h[3])} IN
         1 + (IF ds = {} THEN 0 ELSE CHOOSE d \in ds : \A e \in ds : d >= e)

\* every stored commit is within the depth the model explores
DepthBounded(st) == \A h \in Commits(st) : HashDepth(h) <= MaxSnapDepth

\* vfs.loadFromDisk(snapshotPath) with document doc at that path
LoadFromDisk(doc) ==
    \E l \in {loadFromDisk(workingFiles, store, refs, HEAD, doc)} :
    /\ workingFiles' = l.wf
    /\ store' = l.store
    /\ refs' = l.refs
    /\ HEAD' = l.HEAD
    /\ UNCHANGED <<now, inflight, sandbox,
                 sourceFileCache>>

NextSnap ==
    \/ \E p \in Paths, c \in Contents : Write(p, c)
    \/ \E p \in Paths : Delete(p)
    \/ \E t \in Times : Commit(Message, Absent, t, MaxTreeCommits) /\ DepthBounded(store')
    \/ \E a \in Names \cup Commits(store) : Checkout(a)
    \/ \E n \in Names : CreateBranch(n)
    \/ \E n \in Names : DeleteBranch(n)
    \/ \E n \in Names, t \in Times : Merge(n, t, MaxMerges) /\ DepthBounded(store')
    \/ \E doc \in SnapshotFiles(workingFiles, store, refs, HEAD) : LoadFromDisk(doc)

SpecSnap == Init /\ [][NextSnap]_vars

----------------------------------------------------------------------------
(* The engine over an object store whose put completes some time after it  *)
(* is called (IObjectStore is asynchronous).  commit awaits storeObject for *)
(* every blob and for the commit object; createTreeRecursive calls          *)
(* storeObject(tree) and does not await it.                                 *)

\* VirtualFileSystem.commit over such a store, when it returns: the writes it
\* awaited are in the store, the tree writes it started are in flight
commitAsync(wf, st, rf, head, inflt, message, author, parents, t) ==
    LET c == commit(wf, st, rf, head, message, author, parents, t)
        started == {h \in DOMAIN c.store \ DOMAIN st : c.store[h].type = "tree"}
    IN [hash |-> c.hash,
        store |-> [h \in DOMAIN c.store \ started |-> c.store[h]],
        inflight |-> inflt \cup {c.store[h] : h \in started},
        refs |-> c.refs, HEAD |-> c.HEAD]

\* vfs.commit(message) over the asynchronous store
CommitAsync(message, t, max) ==
    \E c \in {commitAsync(workingFiles, store, refs, HEAD, inflight, message,
                          Lit("User"), Absent, t)} :
    /\ Cardinality(PlainCommits(c.store)) <= max
    /\ t >= now
    /\ now' = t
    /\ store' = c.store
    /\ inflight' = c.inflight
    /\ refs' = c.refs
    /\ HEAD' = c.HEAD
    /\ UNCHANGED <<workingFiles, sandbox, sourceFileCache>>

\* a put that was started completes
PutCompletes(obj) ==
    /\ obj \in inflight
    /\ store' = Put(store, obj)
    /\ inflight' = inflight \ {obj}
    /\ UNCHANGED <<workingFiles, refs, HEAD, now, sandbox, sourceFileCache>>

NextAsync ==
    \/ \E p \in TreePaths, c \in TreeContents : Write(p, c)
    \/ \E p \in TreePaths : Delete(p)
    \/ \E t \in Times : CommitAsync(Message, t, MaxTreeCommits)
    \/ \E obj \in inflight : PutCompletes(obj)
    \/ \E a \in Names \cup Commits(store) : Checkout(a)
    \/ \E n \in Names : CreateBranch(n)
    \/ \E n \in Names : DeleteBranch(n)

SpecAsync == Init /\ [][NextAsync]_vars

----------------------------------------------------------------------------
(* InMemoryObjectStore on its own, driven through put and load by a client  *)
(* that makes up the objects and their hash fields, as its tests do.        *)

\* the hash strings '1', '2', '3' and the blobs that carry them
StoreHashes == {Lit("1"), Lit("2"), Lit("3")}

StoreObjects ==
    {[type |-> "blob", hash |-> h, content |-> c] : h \in StoreHashes, c \in {<<"a">>, <<"b">>}}

\* the arguments of load: up to two { hash, object } pairs
StorePairs == StoreHashes \X StoreObjects

LoadArgs == {<<>>} \cup {<<p>> : p \in StorePairs} \cup {<<p, q>> : p \in StorePairs, q \in StorePairs}

\* store.put(obj)
StorePut(obj) ==
    /\ store' = put(store, obj).store
    /\ UNCHANGED <<workingFiles, refs, HEAD, now, inflight, sandbox,
                 sourceFileCache>>

\* store.load(objects)
StoreLoad(pairs) ==
    /\ store' = load(store, pairs).store
    /\ UNCHANGED <<workingFiles, refs, HEAD, now, inflight, sandbox,
                 sourceFileCache>>

NextStore ==
    \/ \E obj \in StoreObjects : StorePut(obj)
    \/ \E pairs \in LoadArgs : StoreLoad(pairs)

SpecStore == Init /\ [][NextStore]_vars

----------------------------------------------------------------------------
(* The specification with a rooted pattern in .gitignore and a directory   *)
(* of that name at the root and below another directory.                   *)

AnchorPaths == {<<"x", "a">>, <<"a", "x", "a">>}

\* the pattern lines "/x" and "/x/"
AnchorContents == {<<"/", "x">>, <<"/", "x", "/">>}

NextAnchor ==
    \/ \E c \in AnchorContents : Write(<<".gitignore">>, c)
    \/ \E p \in AnchorPaths, c \in TreeContents : Write(p, c)
    \/ \E p \in AnchorPaths \cup {<<".gitignore">>} : Delete(p)
    \/ \E t \in Times : Commit(Message, Absent, t, MaxTreeCommits)

SpecAnchor == Init /\ [][NextAnchor]_vars

----------------------------------------------------------------------------

(* The specification of commit graphs with a merge commit: commits are     *)
(* checked out and merged by their hashes.                                 *)

\* the commits that commit() makes in SpecGraph
MaxGraphCommits == 4

NextGraph ==
    \/ \E c \in TreeContents : Write(<<"a">>, c)
    \/ \E t \in Times : Commit(Message, Absent, t, MaxGraphCommits)
    \/ \E a \in Commits(store) : Checkout(a)
    \/ \E a \in Commits(store), t \in Times : Merge(a, t, MaxMerges)

SpecGraph == Init /\ [][NextGraph]_vars

----------------------------------------------------------------------------

(* The specification with branches named by arbitrary strings, the hashes  *)
(* of stored commits among them.                                           *)

\* the name arguments of createBranch and checkout
HashNames(st) == Names \cup Commits(st)

NextHashName ==
    \/ \E p \in Paths, c \in TreeContents : Write(p, c)
    \/ \E t \in Times : Commit(Message, Absent, t, MaxTreeCommits)
    \/ \E a \in HashNames(store) : Checkout(a)
    \/ \E n \in HashNames(store) : CreateBranch(n)

SpecHashName == Init /\ [][NextHashName]_vars

----------------------------------------------------------------------------

(* The specification of the Compiler's source-file cache over the engine.  *)

\* vfs.read(filePath): the file entity, or undefined
read(wf, segs) ==
    IF WFHas(wf, resolve(segs)) THEN WFGet(wf, resolve(segs)) ELSE Undefined

\* sourceFileCache is the list of its entries
\* [fileName, version, sourceFile]; a parsed source file is modelled by the
\* text it was parsed from
CacheHas(cache, fileName) == \E i \in 1..Len(cache) : cache[i].fileName = fileName

CacheGet(cache, fileName) ==
    cache[CHOOSE i \in 1..Len(cache) : cache[i].fileName = fileName]

\* Map.prototype.set on sourceFileCache
CacheSet(cache, fileName, version, text) ==
    LET entry == [fileName |-> fileName, version |-> version, sourceFile |-> text]
    IN IF CacheHas(cache, fileName)
       THEN [i \in 1..Len(cache) |->
                IF cache[i].fileName = fileName THEN entry ELSE cache[i]]
       ELSE Append(cache, entry)

\* the compiler host's getSourceFile(fileName) for a file of the engine: the
\* cache afterwards and the source file returned
getSourceFile(cache, wf, fileName) ==
    IF ~WFHas(wf, resolve(fileName)) THEN [cache |-> cache, value |-> Undefined]
    ELSE LET vFile == read(wf, fileName) IN
         IF CacheHas(cache, fileName)
            /\ CacheGet(cache, fileName).version = vFile.version
         THEN [cache |-> cache, value |-> CacheGet(cache, fileName).sourceFile]
         ELSE [cache |-> CacheSet(cache, fileName, vFile.version, vFile.content),
               value |-> vFile.content]

\* the host's getSourceFile(fileName) during a compilation
GetSourceFile(fileName) ==
    /\ sourceFileCache' = getSourceFile(sourceFileCache, workingFiles, fileName).cache
    /\ UNCHANGED <<workingFiles, store, refs, HEAD, now, inflight, sandbox>>

NextCompiler ==
    \/ \E p \in Paths, c \in Contents : Write(p, c)
    \/ \E p \in Paths : Delete(p)
    \/ \E t \in Times : Commit(Message, Absent, t, MaxTreeCommits)
    \/ \E a \in Names \cup Commits(store) : Checkout(a)
    \/ \E n \in Names : CreateBranch(n)
    \/ \E n \in Names, t \in Times : Merge(n, t, MaxMerges)
    \/ \E p \in Paths : GetSourceFile(p)

SpecCompiler == Init /\ [][NextCompiler]_vars

----------------------------------------------------------------------------

(* The specification with a snapshot file whose one commit names its own   *)
(* key as its parent.                                                      *)

\* a commit object whose hash field and first parent are the same string
SelfParentCommit ==
    [type |-> "commit", hash |-> UnknownHash, tree |-> UnknownHash,
     parents |-> <<UnknownHash>>, message |-> Message, author |-> Lit("User"),
     timestamp |-> 0]

\* the snapshot file with that commit under its hash field, and
\* refs/heads/main pointing to it
SnapshotWithCycle ==
    [FreshSnapshot EXCEPT !.objects = JArray(<<<<UnknownHash, SelfParentCommit>>>>),
                          !.refs = JArray(<<<<MainRef, UnknownHash>>>>)]

NextCycle ==
    \/ \E p \in Paths, c \in Contents : Write(p, c)
    \/ \E t \in Times : Commit(Message, Absent, t, MaxCommits)
    \/ \E a \in Names \cup Commits(store) : Checkout(a)
    \/ \E n \in Names : CreateBranch(n)
    \/ \E n \in Names, t \in Times : Merge(n, t, MaxMerges)
    \/ \E doc \in {SnapshotWithCycle, saveToDisk(workingFiles, store, refs, HEAD)} :
           LoadFromDisk(doc)

SpecCycle == Init /\ [][NextCycle]_vars

----------------------------------------------------------------------------

(* The specification of one captureLogs call.                              *)

\* captureLogs(container, timeout) up to the return of the promise
CaptureLogs ==
    /\ sandbox = NoCapture
    /\ sandbox' = CaptureStarted
    /\ UNCHANGED <<workingFiles, store, refs, HEAD, now, inflight,
                   sourceFileCache>>

\* the stdout writer of demuxStream
StdoutWrite ==
    /\ sandbox.stream = "open"
    /\ sandbox.stdout < MaxChunks
    /\ sandbox' = IF sandbox.stdout < MAX_LOG_SIZE
                  THEN [sandbox EXCEPT !.stdout = @ + 1]
                  ELSE sandbox
    /\ UNCHANGED <<workingFiles, store, refs, HEAD, now, inflight,
                   sourceFileCache>>

\* the stderr writer of demuxStream
StderrWrite ==
    /\ sandbox.stream = "open"
    /\ sandbox.stderr < MaxChunks
    /\ sandbox' = IF sandbox.stderr < MAX_LOG_SIZE
                  THEN [sandbox EXCEPT !.stderr = @ + 1]
                  ELSE sandbox
    /\ UNCHANGED <<workingFiles, store, refs, HEAD, now, inflight,
                   sourceFileCache>>

\* the setTimeout callback up to its await: container.stop() is requested
TimerFires ==
    /\ sandbox.timer = "armed"
    /\ sandbox' = [sandbox EXCEPT !.timer = "fired", !.stop = "pending"]
    /\ UNCHANGED <<workingFiles, store, refs, HEAD, now, inflight,
                   sourceFileCache>>

\* the rest of the setTimeout callback: container.stop() has settled (ok, or
\* thrown and been caught), then reject(new Error("Execution timed out ..."))
StopCompletes(ok) ==
    /\ sandbox.stop = "pending"
    /\ sandbox' = promiseReject(
                      [sandbox EXCEPT !.stop = IF ok THEN "stopped" ELSE "failed"],
                      "rejected timeout")
    /\ UNCHANGED <<workingFiles, store, refs, HEAD, now, inflight,
                   sourceFileCache>>

\* stream.on('end')
StreamEnd ==
    /\ sandbox.stream = "open"
    /\ sandbox' = promiseResolve(
                      clearTimeout([sandbox EXCEPT !.stream = "ended"]),
                      <<sandbox.stdout, sandbox.stderr>>)
    /\ UNCHANGED <<workingFiles, store, refs, HEAD, now, inflight,
                   sourceFileCache>>

\* stream.on('error')
StreamError ==
    /\ sandbox.stream = "open"
    /\ sandbox' = promiseReject(
                      clearTimeout([sandbox EXCEPT !.stream = "errored"]),
                      "rejected error")
    /\ UNCHANGED <<workingFiles, store, refs, HEAD, now, inflight,
                   sourceFileCache>>

NextSandbox ==
    \/ CaptureLogs
    \/ StdoutWrite
    \/ StderrWrite
    \/ TimerFires
    \/ \E ok \in BOOLEAN : StopCompletes(ok)
    \/ StreamEnd
    \/ StreamError

SpecSandbox == Init /\ [][NextSandbox]_vars

----------------------------------------------------------------------------
(* Properties.  An operation's effect is read off the operator that the     *)
(* action applies, evaluated in every reachable state.                      *)

\* HEAD names a ref of the table
SymbolicHead == HEAD \in DOMAIN refs

\* HEAD is the hash of a stored commit
DetachedHead == HEAD \in Commits(store)

\* the result of vfs.commit(message) in the current state at time t
CommitNow(t) ==
    commit(workingFiles, store, refs, HEAD, Message, Lit("User"), Absent, t)

\* C1: commit with a symbolic HEAD sets that ref, and no other ref, to the new
\* commit hash and leaves HEAD unchanged; commit with a detached HEAD makes
\* HEAD the new commit hash and changes no entry of the reference table.
CommitUpdatesRefs ==
    \A t \in Times :
        LET c == CommitNow(t) IN
        /\ c.hash \in Commits(c.store)
        /\ SymbolicHead =>
               /\ c.HEAD = HEAD
               /\ DOMAIN c.refs = DOMAIN refs
               /\ c.refs[HEAD] = c.hash
               /\ \A n \in DOMAIN refs \ {HEAD} : c.refs[n] = refs[n]
        /\ DetachedHead =>
               /\ c.HEAD = c.hash
               /\ c.refs = refs

\* a commit made on a detached HEAD that moves HEAD to a different commit
CommitOnDetachedHead ==
    /\ DetachedHead
    /\ \E t \in Times :
           LET c == CommitNow(t) IN
           c.HEAD = c.hash /\ c.hash # HEAD /\ c.refs = refs

\* C2: in every reachable state HEAD is a key of the reference table or the
\* hash of a commit object present in the object store.
HeadIsRefOrCommit == SymbolicHead \/ DetachedHead

\* the hashes object o refers to
Referenced(o) ==
    IF o.type = "commit" THEN {o.tree} \cup Range(o.parents)
    ELSE IF o.type = "tree" THEN {o.entries[i].hash : i \in 1..Len(o.entries)}
    ELSE {}

\* C3: after every successful commit, with default or caller-supplied
\* parents, every commit's tree hash and parent hashes and every tree entry's
\* hash are keys of the object store.
NoDanglingReferences ==
    \A h \in DOMAIN store : Referenced(store[h]) \subseteq DOMAIN store

\* the (relative path, content) pairs of working tree wf
FilePairs(wf) ==
    {<<PathRelative(rootDir, wf[i].path), wf[i].content>> : i \in 1..Len(wf)}

\* the (relative path, content) pairs of the files of wf that are not ignored
NotIgnoredPairs(wf) ==
    LET files == FilteredFiles(wf, loadGitIgnore(wf)) IN
    {<<files[i].path, files[i].content>> : i \in 1..Len(files)}

\* C4: after commit, checking out the commit the current ref resolves to
\* restores exactly the (relative path, content) pairs of the working-tree
\* files that were not ignored at commit time, nested paths included.
CheckoutReproducesCommit ==
    \A t \in Times :
        LET c == CommitNow(t)
            co == checkout(workingFiles, c.store, c.refs, c.HEAD,
                           resolveRef(c.store, c.refs, c.HEAD))
        IN co.thrown = "" /\ FilePairs(co.wf) = NotIgnoredPairs(workingFiles)

\* the result of vfs.merge(branchName) in the current state at time t
MergeNow(branchName, t) ==
    merge(workingFiles, store, refs, HEAD, branchName, t)

\* the commits a merge of branchName works on: ours, theirs and their base
Ours == resolveRef(store, refs, HEAD)
Theirs(branchName) == resolveRef(store, refs, branchName)
Base(branchName) == findMergeBase(store, Ours, Theirs(branchName))

\* the flat path -> blob hash map of the tree of stored commit h
FilesOf(st, h) == getTreeFiles(st, Get(st, h).tree, <<>>)

\* the (relative path, content) pairs of the tree of stored commit h; the
\* content of a blob that is not stored is undefined
TreePairs(st, h) ==
    LET m == FilesOf(st, h) IN
    {<<m[i].path, IF Get(st, m[i].hash).type = "blob" THEN Get(st, m[i].hash).content
                  ELSE Undefined>> : i \in 1..Len(m)}

\* the three-way rule on the blob hashes of one path
Resolution(B, O, T) ==
    IF O = T THEN O ELSE IF B = O THEN T ELSE IF B = T THEN O ELSE <<"conflict">>

\* C5: a successful three-way merge started from a working tree equal to
\* ours' tree makes a merge commit whose tree maps every path of the base,
\* ours and theirs trees to the three-way resolution of its blob hashes
\* (absent where the resolution is absent).
MergedTreeFollowsRule ==
    \A n \in Names, t \in Times :
        LET m == MergeNow(n, t) IN
        (/\ m.thrown = "" /\ m.value = Lit("Merge successful")
         /\ FilePairs(workingFiles) = TreePairs(store, Ours))
        => LET b == FilesOf(store, Base(n))
               o == FilesOf(store, Ours)
               th == FilesOf(store, Theirs(n))
               merged == FilesOf(m.store, resolveRef(m.store, m.refs, m.HEAD))
           IN \A p \in Range(MapKeys(b)) \cup Range(MapKeys(o))
                       \cup Range(MapKeys(th)) \cup Range(MapKeys(merged)) :
                  MapGet(merged, p) = Resolution(MapGet(b, p), MapGet(o, p), MapGet(th, p))

\* merge(branchName) gets as far as comparing two commits
BothResolve(n) == ~Falsy(Theirs(n)) /\ ~Falsy(Ours)

\* the commit HEAD resolves to after merge result m
HeadCommit(m) == resolveRef(m.store, m.refs, m.HEAD)

MergeSucceeds(m) == m.thrown = "" /\ m.value = Lit("Merge successful")

\* the commit objects merge result m added to the store
NewCommits(m) == Commits(m.store) \ Commits(store)

\* C6 as stated: when merge returns "Merge successful", exactly one new commit
\* has been created, with parents [ours, theirs] and message
\* "Merge branch '<name>'", and the ref HEAD names points to it.
MergeCreatesOneCommitOnBranch ==
    \A n \in Names, t \in Times :
        LET m == MergeNow(n, t) IN
        MergeSucceeds(m) =>
            /\ Cardinality(NewCommits(m)) = 1
            /\ \A h \in NewCommits(m) :
                   /\ m.store[h].parents = <<Ours, Theirs(n)>>
                   /\ m.store[h].message = <<"Merge branch", n>>
                   /\ m.HEAD = HEAD
                   /\ HEAD \in DOMAIN m.refs
                   /\ m.refs[HEAD] = h

\* C6, amended: when merge returns "Merge successful", HEAD resolves to a
\* commit with parents [ours, theirs] and message "Merge branch '<name>'";
\* the store has gained no other commit, and gained this one unless an
\* identical commit was already stored; with a symbolic HEAD the ref HEAD
\* names, and no other, now points to it, with a detached HEAD it is HEAD.
MergeCommitIsHead ==
    \A n \in Names, t \in Times :
        LET m == MergeNow(n, t)
            h == HeadCommit(m)
        IN MergeSucceeds(m) =>
            /\ h \in Commits(m.store)
            /\ NewCommits(m) \subseteq {h}
            /\ m.store[h].parents = <<Ours, Theirs(n)>>
            /\ m.store[h].message = <<"Merge branch", n>>
            /\ m.store[h].timestamp = t
            /\ SymbolicHead =>
                   /\ m.HEAD = HEAD
                   /\ DOMAIN m.refs = DOMAIN refs
                   /\ \A r \in DOMAIN refs : m.refs[r] = IF r = HEAD THEN h ELSE refs[r]
            /\ DetachedHead => m.HEAD = h /\ m.refs = refs

\* a successful merge on a branch that adds its merge commit to the store
MergeOnBranchAddsCommit ==
    /\ SymbolicHead
    /\ \E n \in Names, t \in Times :
           LET m == MergeNow(n, t) IN
           /\ MergeSucceeds(m)
           /\ NewCommits(m) = {HeadCommit(m)}
           /\ m.refs[HEAD] = HeadCommit(m)

\* the paths of the base, ours and theirs trees whose three blob hashes are
\* pairwise different
ConflictPaths(n) ==
    LET b == FilesOf(store, Base(n))
        o == FilesOf(store, Ours)
        th == FilesOf(store, Theirs(n))
    IN {p \in Range(MapKeys(b)) \cup Range(MapKeys(o)) \cup Range(MapKeys(th)) :
            /\ MapGet(o, p) # MapGet(th, p)
            /\ MapGet(b, p) # MapGet(o, p)
            /\ MapGet(b, p) # MapGet(th, p)}

\* merge(branchName) has a base and a path that diverges three ways
Diverges(n) ==
    /\ BothResolve(n)
    /\ Ours # Theirs(n)
    /\ ~Falsy(Base(n))
    /\ ConflictPaths(n) # {}

\* C7: when some path has B, O, T pairwise different, merge fails with a
\* conflict error naming such a path, and no commit object is added to the
\* store and the reference table and HEAD are as before the call.
ConflictAborts ==
    \A n \in Names, t \in Times :
        LET m == MergeNow(n, t) IN
        Diverges(n) =>
            /\ m.thrown = "Merge conflict"
            /\ m.value \in ConflictPaths(n)
            /\ Commits(m.store) = Commits(store)
            /\ m.refs = refs
            /\ m.HEAD = HEAD

\* a merge that meets a three-way divergence and throws
MergeConflicts ==
    \E n \in Names, t \in Times :
        Diverges(n) /\ MergeNow(n, t).thrown = "Merge conflict"

\* merge(branchName) finds ours as the merge base of two different commits
BaseIsOurs(n) ==
    /\ BothResolve(n)
    /\ Ours # Theirs(n)
    /\ Base(n) = Ours

NewAncestors(n) == getAncestors(store, Theirs(n)) \ getAncestors(store, Ours)

TheirsIsAncestor(n) ==
    /\ BothResolve(n)
    /\ Theirs(n) \in getAncestors(store, Ours)

\* C10: merge returns "Already up to date." when ours and theirs are the same
\* commit and when theirs is an ancestor of ours; in both cases the object
\* store, the reference table, HEAD and the working tree are unchanged.
UpToDateChangesNothing ==
    \A n \in Names, t \in Times :
        LET m == MergeNow(n, t) IN
        TheirsIsAncestor(n) =>
            /\ m.thrown = "" /\ m.value = Lit("Already up to date.")
            /\ m.store = store
            /\ m.refs = refs
            /\ m.HEAD = HEAD
            /\ m.wf = workingFiles

\* a merge of a proper ancestor of ours into a working tree with changes
MergeOfAncestor ==
    \E n \in Names, t \in Times :
        /\ TheirsIsAncestor(n)
        /\ Theirs(n) # Ours
        /\ FilePairs(workingFiles) # TreePairs(store, Ours)
        /\ MergeNow(n, t).value = Lit("Already up to date.")

\* the stored commits reachable by parent links from the commits of s
RECURSIVE AncestorClosure(_, _)
AncestorClosure(st, s) ==
    LET next == s \cup {p \in Commits(st) : \E h \in s : p \in Range(st[h].parents)}
    IN IF next = s THEN s ELSE AncestorClosure(st, next)

\* the ancestors of hash h in the commit graph, h included: stored commits
AncestorsOrSelf(st, h) == AncestorClosure(st, {h} \cap Commits(st))

\* the least number of parent links from commit `from` to its ancestor `to`
RECURSIVE StepsFrom(_, _, _, _)
StepsFrom(st, reached, to, k) ==
    IF to \in reached THEN k
    ELSE StepsFrom(st, reached \cup {p \in Commits(st) :
                                        \E h \in reached : p \in Range(st[h].parents)},
                   to, k + 1)

Steps(st, from, to) == StepsFrom(st, {from}, to, 0)

\* the common ancestors of ours and theirs for merge(branchName)
CommonAncestors(n) ==
    AncestorsOrSelf(store, Ours) \cap AncestorsOrSelf(store, Theirs(n))

\* C11: the merge base computed for ours and theirs is a commit that is an
\* ancestor-or-self of both, none of their common ancestors being nearer to
\* theirs; merge fails with "unrelated histories" exactly when ours and theirs
\* have no common ancestor, and then changes no state.
MergeBaseIsCommonAncestor ==
    \A n \in ApiNames, t \in Times :
        LET m == MergeNow(n, t) IN
        (BothResolve(n) /\ Ours # Theirs(n)) =>
            /\ ~Falsy(Base(n)) =>
                   /\ Base(n) \in CommonAncestors(n)
                   /\ \A c \in CommonAncestors(n) :
                          Steps(store, Theirs(n), Base(n)) <= Steps(store, Theirs(n), c)
            /\ (m.thrown = "unrelated histories") <=> (CommonAncestors(n) = {})
            /\ m.thrown = "unrelated histories" =>
                   /\ m.store = store /\ m.refs = refs
                   /\ m.HEAD = HEAD /\ m.wf = workingFiles

\* the arguments checkout is given: branch names, full ref names, the hashes
\* of the stored objects and a hash of no stored object
CheckoutArgs ==
    ApiNames \cup {FullRef(n) : n \in Names} \cup DOMAIN store \cup {UnknownHash}

\* the result of vfs.checkout(arg) in the current state
CheckoutNow(arg) == checkout(workingFiles, store, refs, HEAD, arg)

\* C12: after a successful checkout(arg), HEAD is arg when arg is a full ref
\* name (it starts with "refs/"), else refs/heads/<arg> when that ref exists,
\* else the commit hash arg resolved to; checkout changes no entry of the
\* reference table.
CheckoutSetsHead ==
    /\ [](\A a \in CheckoutArgs :
              LET co == CheckoutNow(a) IN
              co.thrown = "" =>
                  IF StartsWithRefs(a) THEN co.HEAD = a
                  ELSE IF FullRef(a) \in DOMAIN refs THEN co.HEAD = FullRef(a)
                  ELSE /\ co.HEAD = resolveRef(store, refs, a)
                       /\ co.HEAD \in Commits(store))
    /\ [][\A a \in CheckoutArgs : Checkout(a) => refs' = refs]_vars

\* a state where checkout succeeds with a full ref name, with a short branch
\* name and with a commit hash, and sets HEAD in the three ways
CheckoutEachWay ==
    /\ \E a \in CheckoutArgs :
           StartsWithRefs(a) /\ CheckoutNow(a).thrown = "" /\ CheckoutNow(a).HEAD = a
    /\ \E a \in CheckoutArgs :
           /\ ~StartsWithRefs(a) /\ FullRef(a) \in DOMAIN refs
           /\ CheckoutNow(a).thrown = "" /\ CheckoutNow(a).HEAD = FullRef(a)
           /\ HEAD # FullRef(a)
    /\ \E a \in CheckoutArgs :
           /\ ~StartsWithRefs(a) /\ FullRef(a) \notin DOMAIN refs
           /\ CheckoutNow(a).thrown = "" /\ CheckoutNow(a).HEAD = a
           /\ HEAD # a

\* arg resolves, in the order object hash, full ref name, short branch name,
\* to no commit object: to nothing, to the empty string of a branch without
\* commits, or to a blob or a tree
NotACommit(arg) ==
    LET r == resolveRef(store, refs, arg) IN
    (IF Falsy(r) THEN arg ELSE r) \notin Commits(store)

\* C13: checkout(arg) fails when arg does not resolve to a commit object, and
\* then the working tree, the reference table and HEAD are as before the call.
CheckoutOfNoCommitFails ==
    /\ [](\A a \in CheckoutArgs :
              LET co == CheckoutNow(a) IN
              NotACommit(a) =>
                  /\ co.thrown # ""
                  /\ co.wf = workingFiles
                  /\ co.HEAD = HEAD)
    /\ [][\A a \in CheckoutArgs :
              (Checkout(a) /\ NotACommit(a)) => UNCHANGED <<workingFiles, refs, HEAD>>]_vars

\* uncommitted edits in the working tree, and checkout refused for a blob
\* hash, for a tree hash and for a name that resolves to nothing
CheckoutRefusedWithEdits ==
    /\ workingFiles # <<>>
    /\ Ours \in Commits(store)
    /\ FilePairs(workingFiles) # TreePairs(store, Ours)
    /\ \E a \in DOMAIN store :
           store[a].type = "blob" /\ CheckoutNow(a).thrown = "not a valid commit"
    /\ \E a \in DOMAIN store :
           store[a].type = "tree" /\ CheckoutNow(a).thrown = "not a valid commit"
    /\ \E a \in ApiNames :
           /\ Falsy(resolveRef(store, refs, a))
           /\ CheckoutNow(a).thrown = "not a valid commit"

\* the ref the resolution of HEAD goes through: HEAD itself when it is a key
\* of the reference table, else refs/heads/<HEAD> when that is one; none when
\* HEAD is the hash of a stored object or resolves to nothing
HeadRefs ==
    IF HEAD \in DOMAIN store THEN {}
    ELSE IF HEAD \in DOMAIN refs THEN {HEAD}
    ELSE IF FullRef(HEAD) \in DOMAIN refs THEN {FullRef(HEAD)}
    ELSE {}

\* the result of vfs.deleteBranch(name) in the current state
DeleteBranchNow(name) == deleteBranch(refs, HEAD, name)

\* C14: deleteBranch(name) fails when refs/heads/<name> does not exist and
\* when HEAD resolves through refs/heads/<name>, and then leaves the reference
\* table and HEAD unchanged; in every other case it removes exactly the ref
\* refs/heads/<name> and changes nothing else.
DeleteBranchGuardsHead ==
    /\ [](\A n \in ApiNames :
              LET d == DeleteBranchNow(n) IN
              IF FullRef(n) \notin DOMAIN refs \/ FullRef(n) \in HeadRefs
              THEN d.thrown # "" /\ d.refs = refs
              ELSE /\ d.thrown = ""
                   /\ DOMAIN d.refs = DOMAIN refs \ {FullRef(n)}
                   /\ \A r \in DOMAIN d.refs : d.refs[r] = refs[r])
    /\ [][\A n \in ApiNames :
              DeleteBranch(n) => UNCHANGED <<HEAD, store, workingFiles>>]_vars

\* the result of vfs.createBranch(name) in the current state
CreateBranchNow(name) == createBranch(store, refs, HEAD, name)

\* C15: createBranch(name) fails when refs/heads/<name> exists or HEAD
\* resolves to no commit, leaving the reference table unchanged; otherwise it
\* adds refs/heads/<name> at the commit HEAD resolves to and changes neither
\* HEAD, another ref, the object store nor the working tree; after
\* deleteBranch(name) has removed the ref, createBranch(name) succeeds.
CreateBranchAddsRef ==
    /\ [](\A n \in ApiNames :
              LET c == CreateBranchNow(n)
                  d == DeleteBranchNow(n)
              IN /\ IF FullRef(n) \in DOMAIN refs \/ Ours \notin Commits(store)
                    THEN c.thrown # "" /\ c.refs = refs
                    ELSE /\ c.thrown = ""
                         /\ DOMAIN c.refs = DOMAIN refs \cup {FullRef(n)}
                         /\ c.refs[FullRef(n)] = Ours
                         /\ \A r \in DOMAIN refs : c.refs[r] = refs[r]
                 /\ d.thrown = "" => createBranch(store, d.refs, HEAD, n).thrown = "")
    /\ [][\A n \in ApiNames :
              CreateBranch(n) => UNCHANGED <<HEAD, store, workingFiles>>]_vars

\* the result of vfs.status() in the current state
StatusNow == status(workingFiles, store, refs, HEAD)

\* the (relative path, content) pairs of the tree of the commit HEAD resolves
\* to; none when it resolves to no commit
HeadPairs == IF Ours \in Commits(store) THEN TreePairs(store, Ours) ELSE {}

PathsOf(pairs) == {pr[1] : pr \in pairs}

\* the elements of list s, which has no element twice
AsSet(s) == IF Cardinality(Range(s)) = Len(s) THEN Range(s) ELSE {<<"twice">>}

\* C16: status() returns three pairwise disjoint path lists: new is exactly
\* the paths of the ignore-filtered working tree that are not in the HEAD
\* tree, modified exactly the paths in both whose blobs differ, deleted
\* exactly the paths of the HEAD tree that are not in the working tree; the
\* HEAD tree is empty while the current ref holds the empty string.
StatusListsAreExact ==
    LET s == StatusNow
        kept == NotIgnoredPairs(workingFiles)
    IN /\ AsSet(s.new) \cap AsSet(s.modified) = {}
       /\ AsSet(s.new) \cap AsSet(s.deleted) = {}
       /\ AsSet(s.modified) \cap AsSet(s.deleted) = {}
       /\ AsSet(s.new) = PathsOf(kept) \ PathsOf(HeadPairs)
       /\ AsSet(s.modified) = PathsOf(kept \ HeadPairs) \cap PathsOf(HeadPairs \ kept)
       /\ AsSet(s.deleted) = PathsOf(HeadPairs) \ PathsOf(FilePairs(workingFiles))
       /\ (HEAD \in DOMAIN refs /\ refs[HEAD] = EmptyStr) =>
              /\ HeadPairs = {}
              /\ AsSet(s.new) = PathsOf(kept)
              /\ s.modified = <<>> /\ s.deleted = <<>>

\* a newly constructed engine
NewEngine ==
    [wf |-> <<>>, store |-> [h \in {} |-> NoObject],
     refs |-> [n \in {MainRef} |-> EmptyStr], HEAD |-> MainRef]

\* the engine state after saveToDisk and then loadFromDisk of that file into
\* a newly constructed engine
Reloaded ==
    loadFromDisk(NewEngine.wf, NewEngine.store, NewEngine.refs, NewEngine.HEAD,
                 saveToDisk(workingFiles, store, refs, HEAD))

\* the (path, content) pairs of working tree wf, in its order
PathContentList(wf) == [i \in 1..Len(wf) |-> <<wf[i].path, wf[i].content>>]

\* C17: in every reachable state, saveToDisk followed by loadFromDisk of that
\* file into a new engine gives the same getDatabaseDump() (objects, refs,
\* HEAD) and the same working-tree (path, content) pairs, uncommitted changes
\* included.
SnapshotRoundTrip ==
    /\ Reloaded.thrown = ""
    /\ getDatabaseDump(Reloaded.store, Reloaded.refs, Reloaded.HEAD)
           = getDatabaseDump(store, refs, HEAD)
    /\ PathContentList(Reloaded.wf) = PathContentList(workingFiles)

\* a round trip of an engine with commits and an uncommitted change to a
\* file, whose version counter the reloaded engine does not have
RoundTripWithUncommittedEdits ==
    /\ Commits(store) # {}
    /\ FilePairs(workingFiles) # HeadPairs
    /\ \E i \in 1..Len(workingFiles) : workingFiles[i].version > 0
    /\ Reloaded.thrown = ""
    /\ Reloaded.wf # workingFiles
    /\ PathContentList(Reloaded.wf) = PathContentList(workingFiles)
    /\ Reloaded.store = store

\* the result of vfs.loadFromDisk(snapshotPath) in the current state with
\* document doc at that path
LoadNow(doc) == loadFromDisk(workingFiles, store, refs, HEAD, doc)

\* C18: when loadFromDisk fails (file missing, document unparsable, or one of
\* its parts objects, refs, workingFiles malformed), the object store, the
\* reference table, HEAD and the working tree are as before the call.
FailedLoadChangesNothing ==
    \A doc \in SnapshotFiles(workingFiles, store, refs, HEAD) :
        LET l == LoadNow(doc) IN
        l.thrown # "" =>
            /\ l.store = store
            /\ l.refs = refs
            /\ l.HEAD = HEAD
            /\ l.wf = workingFiles

\* C20: in every reachable state every object of the object store is stored
\* under the key that is the hash computed from its serialization, after
\* commit, merge and loadFromDisk alike.
ObjectsStoredUnderTheirHash ==
    \A h \in DOMAIN store : hashObject(store[h]) = h

\* the tree with hash t, its subtrees and its blobs are all in store st
RECURSIVE TreeComplete(_, _)
TreeComplete(st, t) ==
    /\ t \in DOMAIN st
    /\ st[t].type = "tree"
    /\ \A i \in 1..Len(st[t].entries) :
           IF st[t].entries[i].type = "tree"
           THEN TreeComplete(st, st[t].entries[i].hash)
           ELSE st[t].entries[i].hash \in DOMAIN st

\* C19: over any asynchronous object store, every write of a commit has
\* completed before the reference update that publishes the commit: whoever
\* reads the ref or HEAD afterwards finds the commit, its root tree, every
\* subtree and every blob in the store.
PublishedCommitIsComplete ==
    ~Falsy(Ours) =>
        /\ Ours \in Commits(store)
        /\ TreeComplete(store, store[Ours].tree)

\* the order of the operator < on strings (by UTF-16 code unit) on the names
\* of the model
RawRank(name) ==
    CASE name = "" -> 0
      [] name = ".." -> 1
      [] name = ".gitignore" -> 2
      [] name = "B" -> 3
      [] name = "a" -> 4
      [] name = "d" -> 5
      [] name = "e_nfd" -> 6
      [] name = "x" -> 7
      [] name = "e_nfc" -> 8

\* the stored tree objects
Trees(st) == {h \in DOMAIN st : st[h].type = "tree"}

\* C21: every tree object written by commit has its entries strictly
\* increasing by name in lexicographic order on the raw name string, with no
\* two entries of one tree sharing a name, whatever the order in which the
\* files were written to the working tree.
TreeEntriesStrictlySorted ==
    \A h \in Trees(store) :
        LET es == store[h].entries IN
        \A i \in 1..Len(es) : \A j \in 1..Len(es) :
            i < j => RawRank(es[i].name) < RawRank(es[j].name)

\* the working trees that hold the files of the set `files`, in every order
RECURSIVE Orders(_)
Orders(files) ==
    IF files = {} THEN {<<>>}
    ELSE UNION {{<<f>> \o q : q \in Orders(files \ {f})} : f \in files}

\* the files of working tree wf that its ignore file does not ignore
NotIgnoredFiles(wf) ==
    {wf[i] : i \in {j \in 1..Len(wf) :
                       ~ignores(loadGitIgnore(wf), PathRelative(rootDir, wf[j].path))}}

\* the root tree hash of the commit that vfs.commit(message) makes of working
\* tree wf on the current store, refs and HEAD
RootTreeOf(wf) ==
    LET c == commit(wf, store, refs, HEAD, Message, Lit("User"), Absent, 0)
    IN c.store[c.hash].tree

\* C22: the root tree hash produced by commit depends only on the final
\* ignore-filtered (path -> content) mapping of the working tree: working
\* trees that hold the same not-ignored files, written in any order and with
\* or without the ignored ones, give the same root tree hash; a commit of a
\* working tree whose mapping is that of the HEAD commit's tree has the tree
\* of that commit, its parent.
TreeHashDependsOnMappingOnly ==
    /\ \A q \in Orders(Range(workingFiles)) \cup Orders(NotIgnoredFiles(workingFiles)) :
           RootTreeOf(q) = RootTreeOf(workingFiles)
    /\ (Ours \in Commits(store) /\ HeadPairs = NotIgnoredPairs(workingFiles))
           => RootTreeOf(workingFiles) = store[Ours].tree

\* write(p, c); commit; checkout(prev); checkout(head) from the current
\* state, head being the commit just created: the result of the last checkout,
\* and "failed" when the first checkout throws
WriteCommitRoundTrip(paths, contents) ==
    [pc \in paths \X contents |->
        [prev \in Commits(store) |->
            LET wf1 == write(workingFiles, pc[1], pc[2])
                cm == commit(wf1, store, refs, HEAD, Message, Lit("User"), Absent, now)
                co1 == checkout(wf1, cm.store, cm.refs, cm.HEAD, prev)
            IN IF co1.thrown # "" THEN [thrown |-> "failed", wf |-> co1.wf, HEAD |-> co1.HEAD]
               ELSE checkout(co1.wf, cm.store, cm.refs, co1.HEAD, cm.hash)]]

\* read(p).content = c in working tree wf
ReadGives(wf, p, c) == WFHas(wf, resolve(p)) /\ WFGet(wf, resolve(p)).content = c

\* C23: for every path p and content c, the sequence write(p, c); commit;
\* checkout(prev); checkout(head) ends with read(p).content = c, where prev is
\* any earlier commit and head is the commit just created.
WriteCommitCheckoutRestores ==
    LET r == WriteCommitRoundTrip(TreePaths, TreeContents) IN
    \A pc \in DOMAIN r : \A prev \in DOMAIN r[pc] :
        r[pc][prev].thrown = "" /\ ReadGives(r[pc][prev].wf, pc[1], pc[2])

\* the result of vfs.write(p, c) in the current state
WriteNow(p, c) == write(workingFiles, p, c)

\* C24: write(path, content) on a path absent from the working tree creates a
\* file with version 0; on an existing file it replaces the content and
\* increases the version by exactly 1 when the content differs, and leaves
\* both content and version unchanged when the content is identical.  A file
\* entity's version never decreases: update, which write calls, is all that
\* changes the version of an entity (checkout, merge and loadFromDisk put new
\* entities in the working tree), and it leaves every other file as it is.
WriteBumpsVersionOnChange ==
    \A p \in Paths, c \in Contents :
        LET w == WriteNow(p, c)
            abs == resolve(p)
        IN /\ WFHas(w, abs) /\ WFGet(w, abs).content = c
           /\ ~WFHas(workingFiles, abs) => WFGet(w, abs).version = 0
           /\ WFHas(workingFiles, abs) =>
                  LET f == WFGet(workingFiles, abs) IN
                  /\ WFGet(w, abs).version >= f.version
                  /\ WFGet(w, abs).version =
                         IF f.content = c THEN f.version ELSE f.version + 1
           /\ \A i \in 1..Len(workingFiles) :
                  workingFiles[i].path # abs =>
                      WFHas(w, workingFiles[i].path)
                      /\ WFGet(w, workingFiles[i].path) = workingFiles[i]

\* a file that has been written twice with different contents: another write
\* of its content changes nothing, a write of other content bumps its version
WrittenTwice ==
    \E p \in Paths, c \in Contents, x \in Contents :
        /\ WFHas(workingFiles, resolve(p))
        /\ WFGet(workingFiles, resolve(p)).version = 1
        /\ WFGet(workingFiles, resolve(p)).content = c
        /\ WriteNow(p, c) = workingFiles
        /\ x # c
        /\ WFGet(WriteNow(p, x), resolve(p)).version = 2

\* the absolute path abs lies under the root directory
UnderRoot(abs) == IsStrictPrefix(rootDir, abs)

\* C25: in every reachable state, every key of the working tree is an
\* absolute path located under the engine's root directory, for every path
\* argument accepted by write (relative, absolute, or containing '..'); and
\* every path stored in a tree is relative to the root: it has no ".."
\* segment and, joined to the root, lies under it.
WorkingTreeUnderRoot ==
    /\ \A i \in 1..Len(workingFiles) : UnderRoot(workingFiles[i].path)
    /\ \A h \in Commits(store) :
           \A p \in Range(MapKeys(FilesOf(store, h))) :
               ".." \notin Range(p) /\ UnderRoot(PathJoin(rootDir, p))

\* C26: ObjectStore.put is idempotent: putting an object whose hash is already
\* a key of the store leaves the object stored under that hash unchanged, a
\* second put of the same object changes nothing, and put never fails.
PutIsIdempotent ==
    \A obj \in StoreObjects :
        LET p == put(store, obj) IN
        /\ p.thrown = ""
        /\ put(p.store, obj).store = p.store
        /\ obj.hash \in DOMAIN store => p.store[obj.hash] = store[obj.hash]

\* the sequence of { hash, object } pairs has two distinct objects under one
\* hash
NonInjective(pairs) ==
    \E i \in 1..Len(pairs), j \in 1..Len(pairs) :
        pairs[i][1] = pairs[j][1] /\ pairs[i][2] # pairs[j][2]

\* C27: ObjectStore.load replaces the entire store contents with the supplied
\* sequence (no previously stored object survives) and fails exactly when the
\* sequence is a non-injective mapping, i.e. contains two distinct objects
\* under the same hash.
LoadReplacesOrRejects ==
    \A pairs \in LoadArgs :
        LET l == load(store, pairs) IN
        /\ (l.thrown # "") <=> NonInjective(pairs)
        /\ l.thrown = "" =>
               /\ DOMAIN l.store = {pairs[i][1] : i \in 1..Len(pairs)}
               /\ \A i \in 1..Len(pairs) : l.store[pairs[i][1]] = pairs[i][2]

\* the blob entries reachable in the tree with hash treeHash, each as the
\* pair of its path (the names leading to it, after `base`) and its blob hash
RECURSIVE BlobEntries(_, _, _)
BlobEntries(st, treeHash, base) ==
    LET es == Get(st, treeHash).entries IN
    UNION {IF es[i].type = "blob" THEN {<<Append(base, es[i].name), es[i].hash>>}
           ELSE BlobEntries(st, es[i].hash, Append(base, es[i].name)) :
           i \in 1..Len(es)}

\* the commit that checkout(arg) restores
CheckedOut(arg) ==
    IF Falsy(resolveRef(store, refs, arg)) THEN arg ELSE resolveRef(store, refs, arg)

\* C28: after a successful checkout of commit c, the working tree contains
\* exactly one file for each blob entry reachable in c's tree (at root joined
\* with the entry path, holding the blob's content, version 0) and no other
\* file: every file present before the checkout that is not in c's tree,
\* committed or not, ignored or not, is gone.
CheckoutGivesExactlyTheTree ==
    \A arg \in CheckoutArgs :
        LET co == CheckoutNow(arg) IN
        co.thrown = "" =>
            LET es == BlobEntries(store, store[CheckedOut(arg)].tree, <<>>) IN
            /\ Len(co.wf) = Cardinality(es)
            /\ \A e \in es :
                   /\ WFHas(co.wf, PathJoin(rootDir, e[1]))
                   /\ WFGet(co.wf, PathJoin(rootDir, e[1]))
                          = VirtualFile(PathJoin(rootDir, e[1]), store[e[2]].content)

\* C29: immediately after any successful commit (with no intervening write or
\* delete), status() reports no new, no modified and no deleted paths, for
\* every working tree and ignore file.
StatusCleanAfterCommit ==
    \A t \in Times :
        LET c == CommitNow(t) IN
        status(workingFiles, c.store, c.refs, c.HEAD)
            = [modified |-> <<>>, new |-> <<>>, deleted |-> <<>>]

\* the result of vfs.log() in the current state
LogNow == log(store, refs, HEAD)

\* C30: log() returns the commits on the first-parent chain starting at the
\* commit HEAD resolves to, newest first, ending at a commit with no parents;
\* it is empty before the first commit, each commit made with default parents
\* has as its single parent the previous HEAD commit (no parent when there is
\* none) and lengthens log() by one, and after checkout of an older commit
\* log() starts at that commit.
LogIsFirstParentChain ==
    /\ Commits(store) = {} => LogNow = <<>>
    /\ Ours \in Commits(store) => LogNow # <<>> /\ LogNow[1] = store[Ours]
    /\ \A i \in 1..Len(LogNow) :
           IF i < Len(LogNow)
           THEN /\ LogNow[i].parents # <<>>
                /\ LogNow[i + 1] = Get(store, LogNow[i].parents[1])
           ELSE LogNow[i].parents = <<>>
    /\ \A t \in Times :
           LET c == CommitNow(t)
               after == log(c.store, c.refs, c.HEAD)
           IN /\ Len(after) = Len(LogNow) + 1
              /\ after[1].hash = c.hash
              /\ after[1].parents = IF LogNow = <<>> THEN <<>> ELSE <<LogNow[1].hash>>
              /\ Tail(after) = LogNow
    /\ \A h \in Commits(store) :
           LET co == CheckoutNow(h) IN
           co.thrown = "" => log(store, refs, co.HEAD)[1] = store[h]

----------------------------------------------------------------------------
\* C31: in captureLogs, once the timer has fired (it fires only while the
\* stream has not ended) the container's stop is requested and the promise is
\* never resolved with logs or rejected with the stream's error: it is pending
\* until container.stop() settles and rejected with the timeout error from
\* then on, whatever the order of the stop's completion and the stream's
\* 'end' / 'error'; and if the stream ends while the timer has not fired, the
\* timer is cancelled and the promise is resolved with the captured logs
TimeoutRejects ==
    /\ sandbox.timer = "fired" =>
         /\ sandbox.stop # "none"
         /\ sandbox.promise \in {"pending", "rejected timeout"}
         /\ sandbox.stop \in {"stopped", "failed"} =>
              sandbox.promise = "rejected timeout"
    /\ (sandbox.stream = "ended" /\ sandbox.timer # "fired") =>
         /\ sandbox.timer = "cleared"
         /\ sandbox.promise = "resolved"
         /\ sandbox.logs = <<sandbox.stdout, sandbox.stderr>>

----------------------------------------------------------------------------
\* C32: whenever the root .gitignore is one pattern line beginning with "/"
\* ("/x" or "/x/"), the pattern matches x/a at the root and does not match
\* a/x/a
RootedPatternIsAnchored ==
    LET gitIgnorePath == PathJoin(rootDir, <<".gitignore">>) IN
    (/\ WFHas(workingFiles, gitIgnorePath)
     /\ WFGet(workingFiles, gitIgnorePath).content \in AnchorContents)
    => /\ ignores(loadGitIgnore(workingFiles), <<"x", "a">>)
       /\ ~ignores(loadGitIgnore(workingFiles), <<"a", "x", "a">>)

----------------------------------------------------------------------------
\* C33: a merge that returns while HEAD is a symbolic reference leaves HEAD
\* that same symbolic reference, and when it returns "Fast-forward" the
\* reference HEAD names points to theirs afterwards
MergeKeepsSymbolicHead ==
    \A n \in Names, t \in Times :
        LET m == MergeNow(n, t) IN
        (SymbolicHead /\ m.thrown = "") =>
            /\ m.HEAD = HEAD
            /\ m.value = Lit("Fast-forward") =>
                   /\ HEAD \in DOMAIN m.refs
                   /\ m.refs[HEAD] = Theirs(n)

----------------------------------------------------------------------------
\* the merge of branchName started from the working tree that checkout of
\* ours gives: a run without uncommitted edits
MergeFromClean(branchName, t) ==
    merge(restoreTree(store, Get(store, Ours).tree, rootDir, <<>>).wf,
          store, refs, HEAD, branchName, t)

\* C34: the tree of the commit a successful three-way merge makes is the
\* tree the same merge makes when the working tree holds exactly ours' tree:
\* working-tree edits that were not committed do not change it
MergeTreeFromCommittedTrees ==
    \A n \in Names, t \in Times :
        LET m == MergeNow(n, t)
            c == MergeFromClean(n, t)
        IN MergeSucceeds(m) =>
               /\ MergeSucceeds(c)
               /\ Get(m.store, HeadCommit(m)).tree = Get(c.store, HeadCommit(c)).tree

----------------------------------------------------------------------------
\* C35: the merge base computed for ours and a stored commit is a lowest
\* common ancestor: no common ancestor of the two other than the base has the
\* base among its ancestors
MergeBaseIsLowest ==
    \A n \in Commits(store) :
        (BothResolve(n) /\ ~Falsy(Base(n))) =>
            \A c \in CommonAncestors(n) :
                c # Base(n) => Base(n) \notin AncestorsOrSelf(store, c)

----------------------------------------------------------------------------
\* C36: after a successful checkout(arg), for arg a branch name, a full ref
\* name or a commit hash, HEAD resolves to the commit arg resolved to, whose
\* tree the working tree now holds
CheckoutHeadIsRestoredCommit ==
    \A a \in HashNames(store) \cup {FullRef(n) : n \in HashNames(store)} :
        LET co == CheckoutNow(a)
            r == resolveRef(store, refs, a)
            commitHash == IF Falsy(r) THEN a ELSE r
        IN co.thrown = "" =>
               /\ FilePairs(co.wf) = TreePairs(store, commitHash)
               /\ resolveRef(store, refs, co.HEAD) = commitHash

----------------------------------------------------------------------------
\* C37: every value of the reference table is the hash of a stored commit,
\* or the empty string, which only refs/heads/main holds and only while no
\* commit has been made
RefsPointToCommits ==
    \A r \in DOMAIN refs :
        IF refs[r] = EmptyStr THEN r = MainRef /\ Commits(store) = {}
        ELSE refs[r] \in Commits(store)

\* two branches point to different stored commits, one of them made by merge
BranchesAfterMerge ==
    \E r1, r2 \in DOMAIN refs :
        /\ refs[r1] \in MergeCommits(store)
        /\ refs[r2] \in PlainCommits(store)

----------------------------------------------------------------------------
\* C38: for every path, a read that observes the version number an earlier
\* read observed (the one the compiler's cache entry records) observes the
\* content that earlier read observed: the source file getSourceFile returns
\* is the current content of the file
SameVersionSameContent ==
    \A p \in Paths :
        WFHas(workingFiles, resolve(p)) =>
            /\ (/\ CacheHas(sourceFileCache, p)
                /\ CacheGet(sourceFileCache, p).version = read(workingFiles, p).version)
               => CacheGet(sourceFileCache, p).sourceFile = read(workingFiles, p).content
            /\ getSourceFile(sourceFileCache, workingFiles, p).value =
                   read(workingFiles, p).content

----------------------------------------------------------------------------
\* the directories readdir is asked for: the root and the directories of
\* AnchorPaths
AnchorDirs == {<<>>, <<"a">>, <<"x">>, <<"a", "x">>}

\* readdir(d, {recursive: true, ignore: true}) in the current state
ReaddirNow(d) == readdir(workingFiles, d, TRUE, TRUE)

\* the paths of the tree of the commit that vfs.commit("m") would make now
CommittedPaths ==
    LET c == commit(workingFiles, store, refs, HEAD, Message, Lit("User"), Absent, now)
    IN Range(MapKeys(FilesOf(c.store, HeadCommit(c))))

\* C39: for every directory d and working file f below d,
\* readdir(d, {recursive: true, ignore: true}) omits f exactly when the root
\* .gitignore ignores f's path relative to the engine root, which is exactly
\* when commit leaves f out of the tree and when status leaves f out of its
\* working set
ReaddirAgreesWithCommit ==
    \A d \in AnchorDirs, i \in 1..Len(workingFiles) :
        LET f == workingFiles[i].path
            rel == PathRelative(resolve(d), f)
            rootRel == PathRelative(rootDir, f)
            omitted == JoinSlash(rel) \notin Range(ReaddirNow(d))
        IN (f # resolve(d) /\ rel[1] # "..") =>
               /\ omitted <=> ignores(loadGitIgnore(workingFiles), rootRel)
               /\ omitted <=> rootRel \notin CommittedPaths
               /\ omitted <=> rootRel \notin Range(MapKeys(StatusWorkingFiles(workingFiles)))

----------------------------------------------------------------------------
\* currentHash after k iterations of the loop of log() entered with
\* currentHash; the empty string once the loop has ended
RECURSIVE LogCursor(_, _, _)
LogCursor(st, currentHash, k) ==
    IF k = 0 \/ Falsy(currentHash) THEN currentHash
    ELSE LET c == Get(st, currentHash) IN
         IF ~IsObj(c) \/ c.type # "commit" THEN EmptyStr
         ELSE LogCursor(st, IF c.parents = <<>> \/ Falsy(c.parents[1])
                            THEN EmptyStr ELSE c.parents[1], k - 1)

\* the hashes getAncestors looks up in the object store, in order
RECURSIVE AncestorsExpanded(_, _, _, _)
AncestorsExpanded(st, queue, set, expanded) ==
    IF queue = <<>> THEN expanded
    ELSE LET h == Head(queue) IN
         IF h \in set THEN AncestorsExpanded(st, Tail(queue), set, expanded)
         ELSE AncestorsExpanded(st, Tail(queue) \o ParentsOf(st, h), set \cup {h},
                                Append(expanded, h))

\* the hashes the loop of findMergeBase looks up in the object store, in order
RECURSIVE MergeBaseExpanded(_, _, _, _, _)
MergeBaseExpanded(st, ancestors1, queue, visited, expanded) ==
    IF queue = <<>> THEN expanded
    ELSE LET current == Head(queue) IN
         IF current \in ancestors1 THEN expanded
         ELSE IF current \in visited
              THEN MergeBaseExpanded(st, ancestors1, Tail(queue), visited, expanded)
              ELSE MergeBaseExpanded(st, ancestors1,
                                     Tail(queue) \o ParentsOf(st, current),
                                     visited \cup {current}, Append(expanded, current))

NoRepeats(s) == \A i, j \in 1..Len(s) : s[i] = s[j] => i = j

\* getAncestors and findMergeBase look no hash up twice
ExpandOnce ==
    \A h1, h2 \in Commits(store) :
        /\ NoRepeats(AncestorsExpanded(store, <<h1>>, {}, <<>>))
        /\ NoRepeats(MergeBaseExpanded(store, getAncestors(store, h1), <<h2>>, {}, <<>>))

\* C40: no stored commit is among the ancestors of its parents; the loop of
\* log() ends within as many iterations as there are stored commits, plus
\* one; getAncestors and findMergeBase look no hash up twice
LogAndMergeBaseTerminate ==
    /\ \A h \in Commits(store) :
           h \notin AncestorClosure(store, Range(store[h].parents) \cap Commits(store))
    /\ Falsy(LogCursor(store, resolveRef(store, refs, HEAD),
                       Cardinality(Commits(store)) + 1))
    /\ ExpandOnce

====
